---- MODULE Spec2Model ----
(***************************************************************************)
(* Streaming aggregation, anomaly classification and chat broadcast of    *)
(* the edge LLM / IoT Greengrass components:                              *)
(*   components/chatbot-ui/chatbot_server.py      (ChatBotServer)          *)
(*   components/llm-inference/llm_inference.py    (LLMInferenceEngine)     *)
(*   components/telemetry-bridge/telemetry_bridge.py (TelemetryBridge)     *)
(* Each component is its own operating-system process with private        *)
(* memory; a behaviour follows the process named by proc.                 *)
(***************************************************************************)
EXTENDS Integers, Sequences, FiniteSets, TLC

(***************************************************************************)
(* Bounds of the model.  The deque capacities stand for the program's     *)
(* 1000 / 100 / chatHistoryLimit, scaled down.                            *)
(***************************************************************************)
NumListeners == 3
MaxTime == 3
SensorDataMaxLen == 2
AnalysisResultsMaxLen == 2
ChatHistoryLimit == 2
SensorBufferMaxLen == 2
MaxSeverityValue == 151
MaxNegativeValue == 10
NumChatListeners == 2
NumHandlerThreads == 2
BatchSize == 1
MaxLoopTime == 40
MaxBuffered == 22

(***************************************************************************)
(* Program constants.  Time is counted in units of 30 minutes.            *)
(***************************************************************************)
SummaryWindow == 2
ContextWindow == 1
LatestAnalysisCount == 5
RecentCount == 20
DefaultMin == 0
DefaultMax == 100
InferenceInterval == 30
LoopSleep == 1
ErrorSleep == 5

VARIABLES
    proc,               \* the component process this behaviour follows
    config,             \* LLMInferenceEngine.config['sensors']: type -> thresholds
    model_loaded,       \* LLMInferenceEngine.model and .tokenizer are set
    now,                \* datetime.utcnow(), in units of 30 minutes
    sensor_data,        \* ChatBotServer.sensor_data       deque(maxlen=1000)
    analysis_results,   \* ChatBotServer.analysis_results  deque(maxlen=100)
    chat_history,       \* ChatBotServer.chat_history      deque(maxlen=limit)
    active_connections, \* ChatBotServer.active_connections (a list)
    accepted,           \* websockets whose connection was ever accepted
    ended,              \* websockets whose connection handler has ended
    b_pc,               \* broadcast_message: "idle", "sending", "done", "raised"
    b_msg,              \* broadcast_message: the message being sent
    connections_copy,   \* broadcast_message: the copy it iterates
    b_idx,              \* broadcast_message: position in connections_copy
    b_delivered,        \* listeners whose send_text returned in this broadcast
    b_failed,           \* listeners whose send_text raised in this broadcast
    sensor_buffer,      \* LLMInferenceEngine.sensor_buffer deque(maxlen=1000)
    bus_out,            \* publish requests of the last call that made any
    exchange,           \* the chat question being answered, or the last one
    scan,               \* a request handler's loop over sensor_data
    handlers,           \* LLMInferenceEngine: the handler invocations under way
    batch,              \* LLMInferenceEngine.run: its clock and last_batch_time
    op,                 \* name of the last operation that ran
    arg,                \* the input of the last operation
    outcome,            \* how the last operation ended
    result,             \* what the last operation returned
    call_time,          \* the clock reading when the last operation ran
    prev                \* the operation before it, when it was the same operation

vars == <<proc, config, model_loaded, now, sensor_data, analysis_results, chat_history,
          active_connections, accepted, ended, b_pc, b_msg, connections_copy,
          b_idx, b_delivered, b_failed, sensor_buffer, bus_out, exchange, scan,
          handlers, batch, op, arg, outcome, result, call_time, prev>>

envVars == <<proc, config, model_loaded>>
chatVars == <<sensor_data, analysis_results, chat_history>>
registryVars == <<active_connections, accepted, ended>>
broadcastVars == <<b_pc, b_msg, connections_copy, b_idx, b_delivered, b_failed>>
callVars == <<op, arg, outcome, result, call_time, prev>>
engineVars == <<handlers, batch>>

----------------------------------------------------------------------------
(* Generic helpers *)

Range(s) == {s[i] : i \in 1..Len(s)}

\* list.remove(x): removes the first occurrence of x.
RECURSIVE ListRemove(_, _)
ListRemove(s, x) ==
    IF s = <<>> THEN <<>>
    ELSE IF Head(s) = x THEN Tail(s)
    ELSE <<Head(s)>> \o ListRemove(Tail(s), x)

\* A bounded buffer that refuses the new entry when it is full.
DequeAppendRefusing(d, x, maxlen) ==
    IF Len(d) >= maxlen THEN d ELSE Append(d, x)

\* deque(maxlen=n).append(x): when full, the leftmost entry is discarded.
DequeAppend(d, x, maxlen) ==
    IF maxlen = 0 THEN <<>>
    ELSE IF Len(d) >= maxlen THEN Tail(d) \o <<x>>
    ELSE Append(d, x)

\* list(d)[-n:]
LastN(s, n) ==
    IF Len(s) <= n THEN s ELSE SubSeq(s, Len(s) - n + 1, Len(s))

NoValue == [kind |-> "none"]

NoPrev == [op |-> "none", result |-> NoValue, call_time |-> 0]

\* No chat question has arrived yet.
NoExchange ==
    [state |-> "none", entry |-> NoValue, question |-> NoValue,
     context |-> NoValue, answer |-> NoValue]

\* The threads on which the bus client calls handle_sensor_message.
HandlerThreads == 1..NumHandlerThreads

\* No invocation of handle_sensor_message is under way on a thread.
IdleHandler == [pc |-> "idle", payload |-> NoValue]

\* run() before its loop: last_batch_time = time.time(); batch_inference
\* has not been called.
LoopStart == [clock |-> 0, last_batch_time |-> 0, last_run |-> -1]

\* No loop over sensor_data is under way.
NoScan == [pc |-> "idle", reader |-> "-", idx |-> 1, mutated |-> FALSE]

\* The record of one call: its name, input, ending, return value and time.
Call(name, input, ending, value) ==
    /\ op' = name
    /\ arg' = input
    /\ outcome' = ending
    /\ result' = value
    /\ call_time' = now
    /\ prev' = IF op = name
               THEN [op |-> op, result |-> result, call_time |-> call_time]
               ELSE NoPrev

----------------------------------------------------------------------------
(* Broadcast registry: ChatBotServer.connect_websocket / broadcast_message *)

Listeners == 1..NumListeners

BroadcastMessages ==
    { [kind |-> "entry", type |-> "assistant", message |-> "answer"],
      [kind |-> "entry", type |-> "chat_response", message |-> "llm"] }

BroadcastIdle == b_pc \in {"idle", "done"}

\* await websocket.accept(); self.active_connections.append(websocket)
ConnectWebsocket(ws) ==
    /\ proc = "chatbot"
    /\ ws \notin accepted
    /\ accepted' = accepted \cup {ws}
    /\ active_connections' = Append(active_connections, ws)
    /\ Call("connect_websocket", [kind |-> "ws", ws |-> ws], "returned", NoValue)
    /\ UNCHANGED <<envVars, engineVars, exchange, scan, now, chatVars, ended, broadcastVars,
                   sensor_buffer, bus_out>>

\* connect_websocket: receive_text raises (the peer went away), the error is
\* logged, and the finally clause removes the websocket if it is still listed.
WebsocketHandlerEnd(ws) ==
    /\ proc = "chatbot"
    /\ ws \in accepted
    /\ ws \notin ended
    /\ ended' = ended \cup {ws}
    /\ active_connections' =
          IF ws \in Range(active_connections)
          THEN ListRemove(active_connections, ws)
          ELSE active_connections
    /\ Call("websocket_end", [kind |-> "ws", ws |-> ws], "returned", NoValue)
    /\ UNCHANGED <<envVars, engineVars, exchange, scan, now, chatVars, accepted, broadcastVars,
                   sensor_buffer, bus_out>>

\* broadcast_message up to its first await: nothing to do when there are no
\* connections; otherwise copy the list and start iterating.
BroadcastBegin(message) ==
    /\ b_msg' = message
    /\ b_delivered' = {}
    /\ b_failed' = {}
    /\ b_idx' = 1
    /\ IF active_connections # <<>>
       THEN /\ connections_copy' = active_connections
            /\ b_pc' = "sending"
       ELSE /\ connections_copy' = <<>>
            /\ b_pc' = "done"

BroadcastMessage(message) ==
    /\ proc = "chatbot"
    /\ BroadcastIdle
    /\ BroadcastBegin(message)
    /\ Call("broadcast_message", message,
            IF b_pc' = "done" THEN "returned" ELSE "pending", NoValue)
    /\ UNCHANGED <<envVars, engineVars, exchange, scan, now, chatVars, registryVars, sensor_buffer, bus_out>>

BroadcastAdvance ==
    /\ b_idx' = b_idx + 1
    /\ b_pc' = IF b_idx = Len(connections_copy) THEN "done" ELSE "sending"

\* await connection.send_text(message_json) returned.
SendReturned(connection) ==
    /\ b_delivered' = b_delivered \cup {connection}
    /\ BroadcastAdvance
    /\ UNCHANGED <<active_connections, b_failed>>

\* A broadcast whose send_text failure escapes the loop.
SendRaisedUncaught(connection) ==
    /\ b_failed' = b_failed \cup {connection}
    /\ b_pc' = "raised"
    /\ UNCHANGED <<active_connections, b_delivered, b_idx>>

\* A broadcast that swallows the failure and leaves the connection listed.
SendRaisedKept(connection) ==
    /\ b_failed' = b_failed \cup {connection}
    /\ BroadcastAdvance
    /\ UNCHANGED <<active_connections, b_delivered>>

\* send_text raised: the bare except removes the connection if still listed,
\* and the loop goes on.
SendRaised(connection) ==
    /\ b_failed' = b_failed \cup {connection}
    /\ active_connections' =
          IF connection \in Range(active_connections)
          THEN ListRemove(active_connections, connection)
          ELSE active_connections
    /\ BroadcastAdvance
    /\ UNCHANGED b_delivered

\* One iteration of the loop over connections_copy.  A send to a websocket
\* whose handler has ended cannot succeed.
BroadcastSendOk ==
    /\ proc = "chatbot"
    /\ b_pc = "sending"
    /\ connections_copy[b_idx] \notin ended
    /\ SendReturned(connections_copy[b_idx])
    /\ Call("broadcast_message", b_msg,
            IF b_pc' = "done" THEN "returned" ELSE "pending", NoValue)
    /\ UNCHANGED <<envVars, engineVars, exchange, scan, now, chatVars, accepted, ended, b_msg, connections_copy,
                   sensor_buffer, bus_out>>

BroadcastSendFail ==
    /\ proc = "chatbot"
    /\ b_pc = "sending"
    /\ SendRaised(connections_copy[b_idx])
    /\ Call("broadcast_message", b_msg,
            IF b_pc' = "done" THEN "returned"
            ELSE IF b_pc' = "raised" THEN "raised" ELSE "pending", NoValue)
    /\ UNCHANGED <<envVars, engineVars, exchange, scan, now, chatVars, accepted, ended, b_msg, connections_copy,
                   sensor_buffer, bus_out>>

----------------------------------------------------------------------------
(* JSON payloads.  A payload is what json.loads returned: an object (dict) *)
(* or something else (a list).  A key the object lacks holds Absent; the   *)
(* value of key 'value' is a number or a string; the value of key          *)
(* 'timestamp' is an ISO-8601 string without offset ("naive"), with an     *)
(* offset ("aware"), a string that is no ISO-8601 date ("bad"), or absent. *)

Absent == "<absent>"

Num(n) == [tag |-> "num", n |-> n]
NoNum == [tag |-> "absent", n |-> 0]
StrNum == [tag |-> "str", n |-> 0]

Stamp(t) == [tag |-> "naive", t |-> t]
AwareStamp(t) == [tag |-> "aware", t |-> t]
BadStamp == [tag |-> "bad", t |-> 0]
NoStamp == [tag |-> "absent", t |-> 0]

Reading(id, type, value, unit, flag, stamp) ==
    [json |-> "object", sensor_id |-> id, type |-> type, value |-> value,
     unit |-> unit, is_anomaly |-> flag, timestamp |-> stamp]

JsonList ==
    [json |-> "list", sensor_id |-> Absent, type |-> Absent, value |-> NoNum,
     unit |-> Absent, is_anomaly |-> Absent, timestamp |-> NoStamp]

\* payload.get('is_anomaly', False) used as a condition
IsAnomaly(payload) == payload.is_anomaly = "true"

----------------------------------------------------------------------------
(* Anomaly classifier: LLMInferenceEngine.calculate_severity *)

Raised(exc) == [kind |-> "raised", exc |-> exc, tier |-> "-"]
Tier(t) == [kind |-> "severity", exc |-> "-", tier |-> t]

\* main(): the default configuration's 'sensors'
DefaultSensors ==
    [temperature |-> [min |-> 20, max |-> 80],
     pressure |-> [min |-> 100, max |-> 200],
     vibration |-> [min |-> 0, max |-> 10]]

\* config.get('min', 0), config.get('max', 100) of
\* self.config.get('sensors', {}).get(sensor_type, {})
MinVal(cfg, sensor_type) ==
    IF sensor_type \in DOMAIN cfg THEN cfg[sensor_type].min ELSE DefaultMin
MaxVal(cfg, sensor_type) ==
    IF sensor_type \in DOMAIN cfg THEN cfg[sensor_type].max ELSE DefaultMax

\* The quotient num / den (den # 0) compared with p / q (q > 0).
QuotientGreater(num, den, p, q) ==
    IF den > 0 THEN num * q > p * den ELSE num * q < p * den

\* A classifier that takes a deviation of exactly 0.5 for critical.
SeverityOfDeviationInclusive(num, den) ==
    IF ~QuotientGreater(5, 10, num, den) THEN "critical"
    ELSE IF QuotientGreater(num, den, 2, 10) THEN "warning"
    ELSE "info"

\* if deviation > 0.5 ... elif deviation > 0.2 ... else "info"
SeverityOfDeviation(num, den) ==
    IF QuotientGreater(num, den, 5, 10) THEN "critical"
    ELSE IF QuotientGreater(num, den, 2, 10) THEN "warning"
    ELSE "info"

\* A classifier that escalates whatever the producer flagged.
calculate_severity_trusting(cfg, data) ==
    IF data.is_anomaly = "true" THEN Tier("critical") ELSE Tier("info")

\* A classifier that never escalates a sensor type it has no thresholds for.
calculate_severity_permissive(cfg, data) ==
    IF data.type \notin DOMAIN cfg THEN Tier("info")
    ELSE Tier(SeverityOfDeviation(0, 1))

calculate_severity(cfg, data) ==
    IF data.json # "object" THEN Raised("TypeError")
    ELSE IF data.value.tag = "absent" THEN Raised("KeyError")
    ELSE IF data.type = Absent THEN Raised("KeyError")
    ELSE IF data.value.tag # "num" THEN Raised("TypeError")
    ELSE LET value == data.value.n
             min_val == MinVal(cfg, data.type)
             max_val == MaxVal(cfg, data.type)
         IN IF value > max_val
            THEN IF max_val = 0 THEN Raised("ZeroDivisionError")
                 ELSE Tier(SeverityOfDeviation(value - max_val, max_val))
            ELSE IF value < min_val
            THEN IF min_val = 0 THEN Raised("ZeroDivisionError")
                 ELSE Tier(SeverityOfDeviation(min_val - value, min_val))
            ELSE Tier(SeverityOfDeviation(0, 1))

\* One call of calculate_severity on a reading.
CalculateSeverity(data) ==
    /\ proc = "engine"
    /\ Call("calculate_severity", data,
            IF calculate_severity(config, data).kind = "raised"
            THEN "raised" ELSE "returned",
            calculate_severity(config, data))
    /\ UNCHANGED <<envVars, engineVars, exchange, scan, now, chatVars, registryVars, broadcastVars,
                   sensor_buffer, bus_out>>

----------------------------------------------------------------------------
(* Bus messages.  A message has a topic and a body; the body is the UTF-8  *)
(* text of a JSON value ("json"), UTF-8 text that is no JSON ("not_json"), *)
(* bytes that are no UTF-8 ("not_utf8"), or the message carries no binary  *)
(* body at all ("no_binary").                                             *)

SensorTopic == "local/sensors/temperature_0"
AnalysisTopic == "local/analysis/results"
ChatResponseTopic == "local/chat/responses"
ChatRequestTopic == "local/chat/requests"

\* word in topic
Contains(topic, word) ==
    CASE topic = SensorTopic -> word \in {"sensors"}
      [] topic = AnalysisTopic -> word \in {"analysis"}
      [] topic = ChatResponseTopic -> word \in {"chat/responses"}
      [] topic = ChatRequestTopic -> word \in {"chat/requests"}
      [] OTHER -> FALSE

BusMessage(topic, payload) == [topic |-> topic, enc |-> "json", payload |-> payload]
Malformed(topic, enc) == [topic |-> topic, enc |-> enc, payload |-> JsonList]

\* json.loads(message.binary_message.message.decode('utf-8'))
JsonLoads(message) ==
    CASE message.enc = "json" -> [exc |-> "-", value |-> message.payload]
      [] message.enc = "not_json" -> [exc |-> "JSONDecodeError", value |-> JsonList]
      [] message.enc = "not_utf8" -> [exc |-> "UnicodeDecodeError", value |-> JsonList]
      [] message.enc = "no_binary" -> [exc |-> "AttributeError", value |-> JsonList]

\* The exception classes the handlers' code can raise; all derive from Exception.
Exceptions ==
    {"JSONDecodeError", "UnicodeDecodeError", "AttributeError", "KeyError",
     "TypeError", "ZeroDivisionError", "RuntimeError", "ValueError"}

Logged(exc) == [kind |-> "logged", exc |-> exc]
Escaped(exc) == [kind |-> "raised", exc |-> exc]
Done == [kind |-> "done", exc |-> "-"]

\* A handler with no except clause: the exception reaches the bus adapter.
ExceptNothing(exc) ==
    IF exc = "-" THEN [outcome |-> "returned", value |-> Done]
    ELSE [outcome |-> "raised", value |-> Escaped(exc)]

\* try: ... except Exception as e: logger.error(...)
ExceptException(exc) ==
    IF exc = "-" THEN [outcome |-> "returned", value |-> Done]
    ELSE IF exc \in Exceptions THEN [outcome |-> "returned", value |-> Logged(exc)]
    ELSE [outcome |-> "raised", value |-> Escaped(exc)]

----------------------------------------------------------------------------
(* Windowed aggregation of the chat server:                               *)
(* ChatBotServer.handle_message, get_sensor_summary,                      *)
(* get_sensor_context_for_llm                                             *)

\* The try block of the filter loop:
\*   data_time = datetime.fromisoformat(data.get('timestamp', ''))
\*   if data_time >= cutoff_time: recent_data.append(data)
\* Anything raised there (data is no dict, the string is no ISO date, an
\* offset-aware time compared with the naive cutoff) skips the entry.
IsRecent(data, cutoff_time) ==
    /\ data.json = "object"
    /\ data.timestamp.tag = "naive"
    /\ data.timestamp.t >= cutoff_time

RecentData(buffer, cutoff_time) ==
    SelectSeq(buffer, LAMBDA data : IsRecent(data, cutoff_time))

\* data.get('type', 'unknown')
TypeOf(data) == IF data.type = Absent THEN "unknown" ELSE data.type

\* data.get('value', 0) where a number is needed
ValueOf(data) == IF data.value.tag = "num" THEN data.value.n ELSE 0

OfType(seq, type) == SelectSeq(seq, LAMBDA data : TypeOf(data) = type)

\* float('inf'), float('-inf') and finite numbers
PosInf == [inf |-> 1, n |-> 0]
NegInf == [inf |-> -1, n |-> 0]
Finite(n) == [inf |-> 0, n |-> n]

\* min(a, value) and max(a, value) for a possibly infinite a
PyMin(a, value) ==
    IF a.inf = 1 THEN Finite(value)
    ELSE IF a.inf = -1 THEN a
    ELSE IF value < a.n THEN Finite(value) ELSE a
PyMax(a, value) ==
    IF a.inf = -1 THEN Finite(value)
    ELSE IF a.inf = 1 THEN a
    ELSE IF value > a.n THEN Finite(value) ELSE a

\* round(total / count, 2), in hundredths: the nearest hundredth, ties to even.
RoundedMean(total, count) ==
    LET twice == 200 * total
        q == twice \div (2 * count)
        r == twice % (2 * count)
    IN  IF r > count THEN q + 1
        ELSE IF r < count THEN q
        ELSE IF q % 2 = 0 THEN q ELSE q + 1

NewEntry(unit) ==
    [count |-> 0, avg_value |-> 0, min_value |-> PosInf, max_value |-> NegInf,
     unit |-> unit]

\* The body of the accumulation loop for one reading.
AddReading(entry, data) ==
    [entry EXCEPT !.count = @ + 1,
                  !.avg_value = @ + ValueOf(data),
                  !.min_value = PyMin(@, ValueOf(data)),
                  !.max_value = PyMax(@, ValueOf(data))]

RECURSIVE Accumulate(_, _)
Accumulate(entry, seq) ==
    IF seq = <<>> THEN entry
    ELSE Accumulate(AddReading(entry, Head(seq)), Tail(seq))

\* data.get('unit', '')
UnitOf(data) == IF data.unit = Absent THEN "" ELSE data.unit

\* The summary entry of one sensor type over the readings of that type.
TypeSummary(seq) ==
    LET entry == Accumulate(NewEntry(UnitOf(Head(seq))), seq)
    IN  IF entry.count > 0
        THEN [entry EXCEPT !.avg_value = RoundedMean(@, entry.count)]
        ELSE entry

CountAnomalies(seq) == Len(SelectSeq(seq, IsAnomaly))

TypesIn(seq) == {TypeOf(seq[i]) : i \in 1..Len(seq)}

EmptySummaryMessage(text) == [kind |-> "message", message |-> text]

\* A summary that reports every known sensor type, also one without readings.
SummaryOfAllTypes(recent_data) ==
    [type \in TypesIn(recent_data) \cup {"temperature", "pressure", "vibration"} |->
        IF OfType(recent_data, type) = <<>> THEN NewEntry("")
        ELSE TypeSummary(OfType(recent_data, type))]

\* summary: one entry per sensor type met in recent_data
SummaryByType(recent_data) ==
    [type \in TypesIn(recent_data) |-> TypeSummary(OfType(recent_data, type))]

\* GET /sensor-summary
get_sensor_summary(buffer, utcnow) ==
    IF buffer = <<>>
    THEN EmptySummaryMessage("No recent sensor data available")
    ELSE LET recent_data == RecentData(buffer, utcnow - SummaryWindow)
         IN  IF recent_data = <<>>
             THEN EmptySummaryMessage("No recent sensor data in the last hour")
             ELSE IF \E i \in 1..Len(recent_data) : recent_data[i].value.tag = "str"
             THEN Escaped("TypeError")
             ELSE [kind |-> "summary",
                   sensor_summary |-> SummaryByType(recent_data),
                   anomaly_count |-> CountAnomalies(recent_data),
                   total_readings |-> Len(recent_data),
                   time_range |-> "last 1 hour"]

ContextEntry(data) ==
    [value |-> data.value, unit |-> data.unit,
     is_anomaly |-> IsAnomaly(data), timestamp |-> data.timestamp]

RECURSIVE MapContextEntry(_)
MapContextEntry(seq) ==
    IF seq = <<>> THEN <<>>
    ELSE <<ContextEntry(Head(seq))>> \o MapContextEntry(Tail(seq))

\* get_sensor_context_for_llm
get_sensor_context_for_llm(buffer, analyses, utcnow) ==
    LET recent_data == RecentData(buffer, utcnow - ContextWindow)
    IN  IF recent_data = <<>>
        THEN [kind |-> "context", status |-> "No recent sensor data available"]
        ELSE [kind |-> "context", status |-> "-",
              sensor_data_summary |->
                  [type \in TypesIn(recent_data) |->
                      MapContextEntry(OfType(recent_data, type))],
              total_anomalies_30min |-> CountAnomalies(recent_data),
              total_readings_30min |-> Len(recent_data),
              latest_llm_analysis |-> LastN(analyses, LatestAnalysisCount)]

\* The clock advances; no operation of the program runs.
Tick ==
    /\ now < MaxTime
    /\ now' = now + 1
    /\ UNCHANGED <<envVars, engineVars, exchange, scan, chatVars, registryVars, broadcastVars, sensor_buffer,
                   bus_out, callVars>>

GetSensorSummary ==
    /\ proc = "chatbot"
    /\ LET summary == get_sensor_summary(sensor_data, now)
       IN  Call("get_sensor_summary", NoValue,
                IF summary.kind = "raised" THEN "raised" ELSE "returned", summary)
    /\ UNCHANGED <<envVars, engineVars, exchange, scan, now, chatVars, registryVars, broadcastVars,
                   sensor_buffer, bus_out>>

\* A context builder that consumes the readings it reports.
GetSensorContextForLLMDraining ==
    /\ proc = "chatbot"
    /\ Call("get_sensor_context_for_llm", NoValue, "returned",
            get_sensor_context_for_llm(sensor_data, analysis_results, now))
    /\ sensor_data' = <<>>
    /\ UNCHANGED <<envVars, engineVars, exchange, scan, now, analysis_results, chat_history, registryVars,
                   broadcastVars, sensor_buffer, bus_out>>

GetSensorContextForLLM ==
    /\ proc = "chatbot"
    /\ Call("get_sensor_context_for_llm", NoValue, "returned",
            get_sensor_context_for_llm(sensor_data, analysis_results, now))
    /\ UNCHANGED <<envVars, engineVars, exchange, scan, now, chatVars, registryVars, broadcastVars,
                   sensor_buffer, bus_out>>

\* The branch of handle_message for a decoded payload.  loop_running tells
\* whether the calling thread runs the asyncio event loop: create_task raises
\* RuntimeError when it does not.
HandleDecoded(topic, payload, loop_running) ==
    IF Contains(topic, "sensors")
    THEN /\ sensor_data' = DequeAppend(sensor_data, payload, SensorDataMaxLen)
         /\ UNCHANGED <<analysis_results, broadcastVars>>
         /\ Call("handle_message", BusMessage(topic, payload),
                 ExceptException("-").outcome, ExceptException("-").value)
    ELSE IF Contains(topic, "analysis")
    THEN /\ analysis_results' =
               DequeAppend(analysis_results, payload, AnalysisResultsMaxLen)
         /\ UNCHANGED <<sensor_data, broadcastVars>>
         /\ Call("handle_message", BusMessage(topic, payload),
                 ExceptException("-").outcome, ExceptException("-").value)
    ELSE IF Contains(topic, "chat/responses")
    THEN IF loop_running
         THEN /\ BroadcastIdle
              /\ b_pc' = "scheduled"
              /\ b_msg' = payload
              /\ UNCHANGED <<sensor_data, analysis_results, connections_copy,
                             b_idx, b_delivered, b_failed>>
              /\ Call("handle_message", BusMessage(topic, payload),
                      ExceptException("-").outcome, ExceptException("-").value)
         ELSE /\ UNCHANGED <<sensor_data, analysis_results, broadcastVars>>
              /\ Call("handle_message", BusMessage(topic, payload),
                      ExceptException("RuntimeError").outcome,
                      ExceptException("RuntimeError").value)
    ELSE /\ UNCHANGED <<sensor_data, analysis_results, broadcastVars>>
         /\ Call("handle_message", BusMessage(topic, payload),
                 ExceptException("-").outcome, ExceptException("-").value)

\* handle_message appends the payload of this message to sensor_data.
Observes(message) ==
    /\ JsonLoads(message).exc = "-"
    /\ Contains(message.topic, "sensors")

\* ChatBotServer.handle_message, called on the thread of the bus client.  An
\* append changes the state counter of the deque, which an iterator over it
\* checks at its next step.
HandleMessage(message, loop_running) ==
    /\ proc = "chatbot"
    /\ scan' = IF scan.pc = "iterating" /\ Observes(message)
               THEN [scan EXCEPT !.mutated = TRUE]
               ELSE scan
    /\ IF JsonLoads(message).exc # "-"
       THEN /\ UNCHANGED <<sensor_data, analysis_results, broadcastVars>>
            /\ Call("handle_message", message,
                    ExceptException(JsonLoads(message).exc).outcome,
                    ExceptException(JsonLoads(message).exc).value)
       ELSE HandleDecoded(message.topic, JsonLoads(message).value, loop_running)
    /\ UNCHANGED <<envVars, engineVars, exchange, now, chat_history, registryVars, sensor_buffer,
                   bus_out>>

\* The loops "for data in self.sensor_data:" of get_sensor_summary and of
\* get_sensor_context_for_llm.
Readers == {"get_sensor_summary", "get_sensor_context_for_llm"}

\* A request handler reaches its loop over sensor_data and makes the
\* iterator; get_sensor_summary returns before when the buffer is empty.
ScanBegin(reader) ==
    /\ proc = "chatbot"
    /\ scan.pc = "idle"
    /\ IF reader = "get_sensor_summary" /\ sensor_data = <<>>
       THEN /\ Call(reader, NoValue, "returned", get_sensor_summary(sensor_data, now))
            /\ UNCHANGED scan
       ELSE /\ scan' = [pc |-> "iterating", reader |-> reader, idx |-> 1,
                        mutated |-> FALSE]
            /\ Call(reader, NoValue, "pending", NoValue)
    /\ UNCHANGED <<envVars, engineVars, exchange, now, chatVars, registryVars, broadcastVars,
                   sensor_buffer, bus_out>>

\* The iterator's next step, outside the try of the loop body: RuntimeError
\* ("deque mutated during iteration") when an append happened since the
\* iterator was made; the end of the loop and the handler's result when the
\* buffer is exhausted; the next entry otherwise.
ScanNext ==
    /\ proc = "chatbot"
    /\ scan.pc = "iterating"
    /\ IF scan.mutated
       THEN /\ scan' = NoScan
            /\ Call(scan.reader, NoValue, "raised", Escaped("RuntimeError"))
       ELSE IF scan.idx > Len(sensor_data)
       THEN /\ scan' = NoScan
            /\ Call(scan.reader, NoValue, "returned",
                    IF scan.reader = "get_sensor_summary"
                    THEN get_sensor_summary(sensor_data, now)
                    ELSE get_sensor_context_for_llm(sensor_data, analysis_results, now))
       ELSE /\ scan' = [scan EXCEPT !.idx = scan.idx + 1]
            /\ Call(scan.reader, NoValue, "pending", NoValue)
    /\ UNCHANGED <<envVars, engineVars, exchange, now, chatVars, registryVars, broadcastVars,
                   sensor_buffer, bus_out>>

\* The task made by asyncio.create_task(self.broadcast_message(payload)) starts.
BroadcastTaskStart ==
    /\ proc = "chatbot"
    /\ b_pc = "scheduled"
    /\ BroadcastBegin(b_msg)
    /\ Call("broadcast_message", b_msg,
            IF b_pc' = "done" THEN "returned" ELSE "pending", NoValue)
    /\ UNCHANGED <<envVars, engineVars, exchange, scan, now, chatVars, registryVars, sensor_buffer, bus_out>>

----------------------------------------------------------------------------
(* Chat questions and the keyword templates of both components.           *)

NonString == "<number>"

UserMessages ==
    {"", "   ", "What is the status?", "Any anomaly?", "temperature",
     "pressure", "vibration", "hello"}

\* A strip() that removes nothing.
StripNothing(message) == message

\* message.strip()
Strip(message) == IF message = "   " THEN "" ELSE message

\* word in message.lower(), for the keywords the templates look for
HasWord(message, word) ==
    CASE message = "What is the status?" -> word \in {"status"}
      [] message = "Any anomaly?" -> word \in {"anomaly"}
      [] message = "temperature" -> word \in {"temperature", "temp"}
      [] message = "pressure" -> word \in {"pressure"}
      [] message = "vibration" -> word \in {"vibration"}
      [] OTHER -> FALSE

HasAny(message, words) == \E w \in words : HasWord(message, w)

Text(template) == [text |-> template]

\* ChatBotServer.get_system_status_response
get_system_status_response(context) ==
    IF context.status = "No recent sensor data available"
    THEN Text("I don't have recent sensor data to provide a system status.")
    ELSE IF context.total_anomalies_30min = 0
    THEN [text |-> "System Status: All sensors are operating normally.",
          readings |-> context.total_readings_30min]
    ELSE [text |-> "System Status: anomalies detected.",
          anomalies |-> context.total_anomalies_30min,
          readings |-> context.total_readings_30min]

\* context.get("total_anomalies_30min", 0), context.get("total_readings_30min", 0)
ContextAnomalies(context) ==
    IF context.status = "-" THEN context.total_anomalies_30min ELSE 0
ContextReadings(context) ==
    IF context.status = "-" THEN context.total_readings_30min ELSE 0

\* ChatBotServer.get_anomaly_response
get_anomaly_response(context) ==
    IF ContextAnomalies(context) = 0
    THEN Text("No anomalies detected in the last 30 minutes.")
    ELSE [text |-> "I've detected anomalies in the last 30 minutes.",
          anomalies |-> ContextAnomalies(context)]

\* context.get("sensor_data_summary", {}).get(type, [])
ContextList(context, type) ==
    IF context.status = "-" /\ type \in DOMAIN context.sensor_data_summary
    THEN context.sensor_data_summary[type]
    ELSE <<>>

\* get_temperature_response, get_pressure_response, get_vibration_response
get_sensor_type_response(context, type) ==
    LET list == ContextList(context, type)
    IN  IF list = <<>>
        THEN [text |-> "No recent data available.", type |-> type]
        ELSE [text |-> "Latest reading", type |-> type,
              value |-> list[Len(list)].value,
              unit |-> list[Len(list)].unit,
              is_anomaly |-> list[Len(list)].is_anomaly,
              count |-> Len(list)]

\* ChatBotServer.get_general_response
get_general_response(context) ==
    [text |-> "I'm monitoring your industrial sensors in real-time.",
     readings |-> ContextReadings(context),
     anomalies |-> ContextAnomalies(context)]

\* ChatBotServer.generate_contextual_response
generate_contextual_response(user_message, context) ==
    IF HasAny(user_message, {"status", "how", "current", "now"})
    THEN get_system_status_response(context)
    ELSE IF HasAny(user_message, {"anomaly", "alert", "problem", "issue"})
    THEN get_anomaly_response(context)
    ELSE IF HasAny(user_message, {"temperature", "temp", "hot", "cold"})
    THEN get_sensor_type_response(context, "temperature")
    ELSE IF HasAny(user_message, {"pressure"})
    THEN get_sensor_type_response(context, "pressure")
    ELSE IF HasAny(user_message, {"vibration", "vibrate"})
    THEN get_sensor_type_response(context, "vibration")
    ELSE get_general_response(context)

ChatEntry(type, message, timestamp) ==
    [kind |-> "entry", type |-> type, message |-> message, timestamp |-> timestamp]

\* create_context_aware_prompt: the prompt text embeds the context and the
\* line "User question: ...".
create_context_aware_prompt(user_message, sensor_context) ==
    [kind |-> "chatbot_prompt", context |-> sensor_context, question |-> user_message]

\* The chat_request that query_llm publishes
ChatQuery(user_message, sensor_context, timestamp) ==
    [json |-> "object", type |-> "chat_query", message |-> user_message,
     enhanced_prompt |-> create_context_aware_prompt(user_message, sensor_context),
     timestamp |-> timestamp, context |-> "chatbot"]

\* One publish request and whether future.result(timeout=5.0) returned.
Published(topic, payload) == [topic |-> topic, payload |-> payload, ok |-> TRUE]
Refused(topic, payload) == [topic |-> topic, payload |-> payload, ok |-> FALSE]

\* What a publish request meets: the bus takes it ("up"), refuses every
\* request ("down"), or takes the first request of a call and refuses the
\* next ("local_down").
BusStates == {"up", "down", "local_down"}

\* A publish_to_llm that repeats a refused request once.
publish_to_llm_retrying(chat_request, bus) ==
    IF bus # "down" THEN <<Published(ChatRequestTopic, chat_request)>>
    ELSE <<Refused(ChatRequestTopic, chat_request),
           Refused(ChatRequestTopic, chat_request)>>

\* publish_to_llm: one publish; a failure is logged and not retried.
publish_to_llm(chat_request, bus) ==
    IF bus # "down" THEN <<Published(ChatRequestTopic, chat_request)>>
    ELSE <<Refused(ChatRequestTopic, chat_request)>>

ErrorText(exc) == [text |-> "I apologize, but I encountered an error", exc |-> exc]

\* A query_llm that reads the sensor data again after the publish and answers
\* from that instead of the context it published.
query_llm_answer_rebuilt(user_message, sensor_context) ==
    IF user_message = NonString
    THEN ErrorText("AttributeError")
    ELSE generate_contextual_response(
             user_message,
             get_sensor_context_for_llm(sensor_data, analysis_results, now))

\* query_llm after the publish: return generate_contextual_response(
\* user_message, sensor_context); message.lower() of a message that is no
\* string raises, and the except clause answers with an apology.
query_llm_answer(user_message, sensor_context) ==
    IF user_message = NonString
    THEN ErrorText("AttributeError")
    ELSE generate_contextual_response(user_message, sensor_context)

\* ChatBotServer.query_llm as a whole: context, prompt, one publish, then the
\* local template.
query_llm(user_message, bus) ==
    LET sensor_context ==
            get_sensor_context_for_llm(sensor_data, analysis_results, now)
    IN  [out |-> publish_to_llm(ChatQuery(user_message, sensor_context, now), bus),
         context |-> sensor_context,
         response |-> query_llm_answer(user_message, sensor_context)]

\* Where a chat question came in: POST /chat, or a listener's websocket.
ViaHttp == [via |-> "http", ws |-> 0]
ViaWebsocket(ws) == [via |-> "websocket", ws |-> ws]

Pending(entry, user_message, sensor_context) ==
    [state |-> "pending", entry |-> entry, question |-> user_message,
     context |-> sensor_context, answer |-> NoValue]

\* An exchange that is still pending after its answer was produced.
Unresolved(entry, user_message, sensor_context, answer) ==
    [state |-> "pending", entry |-> entry, question |-> user_message,
     context |-> sensor_context, answer |-> answer]

Resolved(entry, user_message, sensor_context, answer) ==
    [state |-> "resolved", entry |-> entry, question |-> user_message,
     context |-> sensor_context, answer |-> answer]

\* POST /chat run from its first line to the start of the broadcast with no
\* bus callback in between: the question is refused when empty; otherwise
\* it is stored, answered by query_llm (context, publish, local template),
\* the answer is stored and the broadcast of the answer begins.
ChatWithLLM(message, bus) ==
    /\ proc = "chatbot"
    /\ BroadcastIdle
    /\ exchange.state # "pending"
    /\ IF Strip(message) = ""
       THEN /\ Call("chat_with_llm", Text(message), "http_400", NoValue)
            /\ UNCHANGED <<chat_history, broadcastVars, bus_out, exchange>>
       ELSE LET user_message == Strip(message)
                answer == query_llm(user_message, bus)
                response_entry == ChatEntry("assistant", answer.response, now)
            IN  /\ chat_history' =
                      DequeAppend(
                          DequeAppend(chat_history,
                                      ChatEntry("user", user_message, now),
                                      ChatHistoryLimit),
                          response_entry, ChatHistoryLimit)
                /\ bus_out' = answer.out
                /\ exchange' = Resolved(ViaHttp, user_message, answer.context,
                                        answer.response)
                /\ BroadcastBegin(response_entry)
                /\ Call("chat_with_llm", Text(message),
                        IF b_pc' = "done" THEN "returned" ELSE "pending",
                        response_entry)
    /\ UNCHANGED <<envVars, engineVars, scan, now, sensor_data, analysis_results, registryVars,
                   sensor_buffer>>

\* query_llm up to future.result(timeout=5.0) inside publish_to_llm: the
\* context is built, the request is handed to the bus, and the event loop's
\* thread blocks until the bus has answered or five seconds have passed.
QueryLLMPublish(entry, user_message, bus) ==
    LET sensor_context ==
            get_sensor_context_for_llm(sensor_data, analysis_results, now)
    IN  /\ exchange' = Pending(entry, user_message, sensor_context)
        /\ bus_out' = publish_to_llm(ChatQuery(user_message, sensor_context, now), bus)

\* POST /chat up to the blocking wait of the publish.
ChatWithLLMBegin(message, bus) ==
    /\ proc = "chatbot"
    /\ BroadcastIdle
    /\ exchange.state # "pending"
    /\ IF Strip(message) = ""
       THEN /\ Call("chat_with_llm", Text(message), "http_400", NoValue)
            /\ UNCHANGED <<chat_history, bus_out, exchange>>
       ELSE /\ chat_history' = DequeAppend(chat_history,
                                           ChatEntry("user", Strip(message), now),
                                           ChatHistoryLimit)
            /\ QueryLLMPublish(ViaHttp, Strip(message), bus)
            /\ Call("chat_with_llm", Text(message), "pending", NoValue)
    /\ UNCHANGED <<envVars, engineVars, scan, now, sensor_data, analysis_results, registryVars,
                   broadcastVars, sensor_buffer>>

\* connect_websocket: receive_text returned a message of type 'chat'; the
\* handler calls query_llm with its 'message', whatever that is.
WebsocketChatBegin(ws, message, bus) ==
    /\ proc = "chatbot"
    /\ ws \in accepted
    /\ ws \notin ended
    /\ exchange.state # "pending"
    /\ QueryLLMPublish(ViaWebsocket(ws), message, bus)
    /\ Call("websocket_chat", [kind |-> "ws", ws |-> ws, text |-> message],
            "pending", NoValue)
    /\ UNCHANGED <<envVars, engineVars, scan, now, chatVars, registryVars, broadcastVars,
                   sensor_buffer>>

\* The wait of the publish is over and query_llm returns its answer.  POST
\* /chat stores the answer and begins its broadcast.  The websocket handler
\* sends {'type': 'response', ...} to the asking websocket alone; when that
\* send raises, the handler logs, leaves its loop and removes the websocket.
QueryLLMReturn(send_ok) ==
    /\ proc = "chatbot"
    /\ exchange.state = "pending"
    /\ LET answer == query_llm_answer(exchange.question, exchange.context)
       IN  /\ exchange' = Resolved(exchange.entry, exchange.question,
                                   exchange.context, answer)
           /\ IF exchange.entry.via = "http"
              THEN /\ send_ok
                   /\ chat_history' = DequeAppend(chat_history,
                                                  ChatEntry("assistant", answer, now),
                                                  ChatHistoryLimit)
                   /\ BroadcastBegin(ChatEntry("assistant", answer, now))
                   /\ Call("chat_with_llm", Text(exchange.question),
                           IF b_pc' = "done" THEN "returned" ELSE "pending",
                           ChatEntry("assistant", answer, now))
                   /\ UNCHANGED registryVars
              ELSE /\ UNCHANGED <<chat_history, broadcastVars, accepted>>
                   /\ IF send_ok
                      THEN /\ Call("websocket_chat",
                                   [kind |-> "ws", ws |-> exchange.entry.ws,
                                    text |-> exchange.question],
                                   "returned", ChatEntry("response", answer, now))
                           /\ UNCHANGED <<active_connections, ended>>
                      ELSE /\ Call("websocket_chat",
                                   [kind |-> "ws", ws |-> exchange.entry.ws,
                                    text |-> exchange.question],
                                   "ended", Logged("send_text"))
                           /\ ended' = ended \cup {exchange.entry.ws}
                           /\ active_connections' =
                                 IF exchange.entry.ws \in Range(active_connections)
                                 THEN ListRemove(active_connections,
                                                 exchange.entry.ws)
                                 ELSE active_connections
    /\ UNCHANGED <<envVars, engineVars, scan, now, sensor_data, analysis_results,
                   sensor_buffer, bus_out>>

\* EdgeLLMChatBot.analyze_query: the sensor data come from InfluxDB, the
\* answer from the model when it is loaded.
analyze_query(query, influx_ok) ==
    IF ~influx_ok THEN Text("ERROR: Cannot access InfluxDB sensor data.")
    ELSE IF model_loaded THEN [text |-> "llm_response", query |-> query]
    ELSE Text("Sorry, the AI model is not available. Please try again later.")

\* EdgeLLMChatBot, POST /chat: the Flask chat bot keeps no history and uses no
\* bus; data.get('message', '').strip() raises for a message that is no
\* string, and the except clause answers 500.
SimpleChat(message, influx_ok) ==
    /\ proc = "simple_chatbot"
    /\ IF message = NonString
       THEN Call("simple_chat", Text(message), "http_500",
                 [error |-> "Internal server error"])
       ELSE IF Strip(message) = ""
       THEN Call("simple_chat", Text(message), "http_400",
                 [error |-> "Message cannot be empty"])
       ELSE Call("simple_chat", Text(message), "returned",
                 [response |-> analyze_query(Strip(message), influx_ok)])
    /\ UNCHANGED <<envVars, engineVars, exchange, scan, now, chatVars, registryVars,
                   broadcastVars, sensor_buffer, bus_out>>

----------------------------------------------------------------------------
(* Inference engine: LLMInferenceEngine.handle_sensor_message and what it  *)
(* calls.                                                                 *)

ChatRequest(message, enhanced_prompt) ==
    [json |-> "object", type |-> "chat_query", message |-> message,
     enhanced_prompt |-> enhanced_prompt]

\* reading.get('value', 0)
LatestValue(reading) ==
    IF reading.value.tag = "absent" THEN Num(0) ELSE reading.value

\* The per-type entry after the loop over the readings of that type.
EngineTypeEntry(seq) ==
    [latest_value |-> LatestValue(seq[Len(seq)]),
     unit |-> UnitOf(seq[Len(seq)]),
     readings_count |-> Len(seq),
     anomaly_count |-> CountAnomalies(seq)]

\* A context over every buffered reading.
get_recent_sensor_context_whole(buffer, utcnow) ==
    [kind |-> "engine_context", status |-> "-",
     sensor_summary |->
         [type \in TypesIn(buffer) |-> EngineTypeEntry(OfType(buffer, type))],
     total_anomalies |-> CountAnomalies(buffer),
     total_readings |-> Len(buffer),
     timestamp |-> utcnow]

\* LLMInferenceEngine.get_recent_sensor_context
get_recent_sensor_context(buffer, utcnow) ==
    IF buffer = <<>>
    THEN [kind |-> "engine_context", status |-> "No recent sensor data"]
    ELSE LET recent_readings == LastN(buffer, RecentCount)
         IN  IF \E i \in 1..Len(recent_readings) : recent_readings[i].json # "object"
             THEN Escaped("AttributeError")
             ELSE [kind |-> "engine_context", status |-> "-",
                   sensor_summary |->
                       [type \in TypesIn(recent_readings) |->
                           EngineTypeEntry(OfType(recent_readings, type))],
                   total_anomalies |-> CountAnomalies(recent_readings),
                   total_readings |-> Len(recent_readings),
                   timestamp |-> utcnow]

\* sensor_context.get('total_anomalies', 0) etc. on whatever the context is
EngineTotal(context, field) ==
    IF context.kind = "engine_context" /\ context.status = "-"
    THEN context[field] ELSE 0

EngineTypeData(context, type) ==
    IF context.kind = "engine_context" /\ context.status = "-"
       /\ type \in DOMAIN context.sensor_summary
    THEN <<context.sensor_summary[type]>> ELSE <<>>

EngineTypeResponse(context, type) ==
    IF EngineTypeData(context, type) = <<>>
    THEN [text |-> "No recent data available.", type |-> type]
    ELSE [text |-> "Current reading", type |-> type,
          value |-> EngineTypeData(context, type)[1].latest_value,
          unit |-> EngineTypeData(context, type)[1].unit,
          count |-> EngineTypeData(context, type)[1].readings_count]

\* LLMInferenceEngine.generate_chat_response
generate_chat_response(user_question, sensor_context) ==
    IF HasAny(user_question, {"status", "how"})
    THEN Text("Based on recent sensor data, all systems are operating within normal parameters.")
    ELSE IF HasAny(user_question, {"anomaly", "problem"})
    THEN IF EngineTotal(sensor_context, "total_anomalies") > 0
         THEN [text |-> "I've detected anomalies in recent sensor readings.",
               anomalies |-> EngineTotal(sensor_context, "total_anomalies")]
         ELSE Text("No anomalies detected in recent sensor readings.")
    ELSE IF HasAny(user_question, {"temperature"})
    THEN EngineTypeResponse(sensor_context, "temperature")
    ELSE IF HasAny(user_question, {"pressure"})
    THEN EngineTypeResponse(sensor_context, "pressure")
    ELSE IF HasAny(user_question, {"vibration"})
    THEN EngineTypeResponse(sensor_context, "vibration")
    ELSE [text |-> "I'm monitoring your industrial sensors in real-time.",
          readings |-> EngineTotal(sensor_context, "total_readings")]

\* The line "User Question: ..." of the prompt.  Only the prompt made by
\* create_chat_prompt has one; the chat server's prompt says "User question:".
UserQuestionOf(prompt) ==
    IF prompt.kind = "engine_prompt" THEN Strip(prompt.question) ELSE ""

\* [r for r in sensor_readings if isinstance(r, dict) and
\*  r.get('type') == 'temperature']; a sensor context has no key 'type'.
TemperatureReadings(sensor_readings) ==
    SelectSeq(sensor_readings,
              LAMBDA r : /\ "json" \in DOMAIN r
                         /\ r.json = "object"
                         /\ r.type = "temperature")

\* sum(r.get('value', 0) for r in temp_readings): the sum of an int and a
\* value that is not a number raises TypeError.
RECURSIVE SumValues(_)
SumValues(temp_readings) ==
    IF temp_readings = <<>> THEN 0
    ELSE ValueOf(Head(temp_readings)) + SumValues(Tail(temp_readings))

SumRaises(temp_readings) ==
    \E i \in 1..Len(temp_readings) : temp_readings[i].value.tag = "str"

\* LLMInferenceEngine.mock_inference
mock_inference(sensor_readings, is_anomaly, is_chat, prompt) ==
    IF is_chat /\ prompt.kind # "none"
    THEN generate_chat_response(UserQuestionOf(prompt), sensor_readings[1])
    ELSE IF is_anomaly
    THEN [text |-> "Anomaly detected: value exceeds normal range.",
          type |-> TypeOf(sensor_readings[1]),
          value |-> LatestValue(sensor_readings[1]),
          unit |-> UnitOf(sensor_readings[1])]
    ELSE IF sensor_readings = <<>>
    THEN Text("No sensor data available for analysis.")
    ELSE LET temp_readings == TemperatureReadings(sensor_readings)
         IN  IF temp_readings = <<>>
             THEN Text("System operating normally. All sensors within expected ranges.")
             ELSE IF SumRaises(temp_readings) THEN Escaped("TypeError")
             ELSE [text |-> "System operating normally. Average temperature",
                   sum |-> SumValues(temp_readings),
                   count |-> Len(temp_readings)]

NoPrompt == [kind |-> "none"]

\* create_analysis_prompt reads reading['type'], ['value'], ['unit'], ['timestamp']
PromptKeysPresent(reading) ==
    /\ reading.type # Absent
    /\ reading.value.tag # "absent"
    /\ reading.unit # Absent
    /\ reading.timestamp.tag # "absent"

\* LLMInferenceEngine.analyze_with_llm.  llm_ok tells whether tokenizing and
\* generating succeed; the fall-back without a model passes neither is_chat
\* nor the prompt on.
analyze_with_llm(sensor_readings, is_anomaly, is_chat, prompt, llm_ok) ==
    IF ~model_loaded
    THEN mock_inference(sensor_readings, is_anomaly, FALSE, NoPrompt)
    ELSE IF \/ is_chat /\ prompt.kind # "none"
            \/ \A i \in 1..Len(sensor_readings) :
                  PromptKeysPresent(sensor_readings[i])
    THEN IF llm_ok THEN Text("<generated by the model>")
         ELSE mock_inference(sensor_readings, is_anomaly, is_chat, prompt)
    ELSE mock_inference(sensor_readings, is_anomaly, is_chat, prompt)

\* publish_chat_response: one publish; a failure is logged.
publish_chat_response(response_data, bus) ==
    IF bus # "down" THEN <<Published(ChatResponseTopic, response_data)>>
    ELSE <<Refused(ChatResponseTopic, response_data)>>

\* publish_analysis: the industrial topic, then (publish_to_local_topic) the
\* local topic; a failure of the first skips the second.
publish_analysis(analysis, bus) ==
    IF bus = "up"
    THEN <<Published("industrial/analysis/results", analysis),
           Published(AnalysisTopic, analysis)>>
    ELSE IF bus = "local_down"
    THEN <<Published("industrial/analysis/results", analysis),
           Refused(AnalysisTopic, analysis)>>
    ELSE <<Refused("industrial/analysis/results", analysis)>>

Effect(exc, out) == [exc |-> exc, out |-> out]

\* LLMInferenceEngine.process_anomaly: the exception it ends with ("-" for
\* none) and what it published.
process_anomaly(data, llm_ok, bus) ==
    IF data.sensor_id = Absent THEN Effect("KeyError", <<>>)
    ELSE LET severity == calculate_severity(config, data)
         IN  IF severity.kind = "raised"
             THEN Effect(severity.exc, <<>>)
             ELSE Effect("-",
                         publish_analysis(
                             [type |-> "anomaly_detection",
                              sensor_id |-> data.sensor_id,
                              analysis |-> analyze_with_llm(<<data>>, TRUE, FALSE,
                                                            NoPrompt, llm_ok),
                              timestamp |-> now,
                              severity |-> severity.tier],
                             bus))

ChatResponse(original_message, response, context_used) ==
    [json |-> "object", type |-> "chat_response",
     original_message |-> original_message, response |-> response,
     timestamp |-> now, context_used |-> context_used]

\* chat_data.get('message', '')
MessageOf(chat_data) == IF chat_data.message = Absent THEN "" ELSE chat_data.message

\* The prompt handed to analyze_with_llm
\* ("absent": no enhanced_prompt key; "same": an enhanced_prompt that is
\* empty or equal to the message.)
PromptFor(chat_data) ==
    IF chat_data.enhanced_prompt.kind = "chatbot_prompt"
    THEN chat_data.enhanced_prompt
    ELSE [kind |-> "engine_prompt", question |-> MessageOf(chat_data)]

\* LLMInferenceEngine.handle_chat_request: the exception that leaves it and
\* what it published.
handle_chat_request(chat_data, llm_ok, bus) ==
    IF chat_data.json # "object"
    THEN Effect("AttributeError", <<>>)
    ELSE IF MessageOf(chat_data) = NonString
    THEN Effect("-", publish_chat_response(
                        ChatResponse(NonString, Logged("TypeError"), FALSE), bus))
    ELSE LET sensor_context == get_recent_sensor_context(sensor_buffer, now)
         IN  IF sensor_context.kind = "raised"
             THEN Effect("-", publish_chat_response(
                                 ChatResponse(MessageOf(chat_data),
                                              Logged("AttributeError"), FALSE), bus))
             ELSE Effect("-", publish_chat_response(
                                 ChatResponse(MessageOf(chat_data),
                                     analyze_with_llm(<<sensor_context>>, FALSE, TRUE,
                                                      PromptFor(chat_data), llm_ok),
                                     TRUE),
                                 bus))

\* The body of handle_sensor_message's try block for a decoded payload: the
\* buffer afterwards, the exception raised ("-" for none), what was published.
SensorBranch(payload, llm_ok, bus) ==
    LET buffer == DequeAppend(sensor_buffer, payload, SensorBufferMaxLen)
    IN  IF payload.json # "object"
        THEN [buffer |-> buffer, exc |-> "AttributeError", out |-> <<>>]
        ELSE IF IsAnomaly(payload)
        THEN LET effect == process_anomaly(payload, llm_ok, bus)
             IN  [buffer |-> buffer, exc |-> effect.exc, out |-> effect.out]
        ELSE [buffer |-> buffer, exc |-> "-", out |-> <<>>]

EngineBody(message, llm_ok, bus) ==
    IF JsonLoads(message).exc # "-"
    THEN [buffer |-> sensor_buffer, exc |-> JsonLoads(message).exc, out |-> <<>>]
    ELSE IF Contains(message.topic, "chat/requests")
    THEN LET effect == handle_chat_request(JsonLoads(message).value, llm_ok, bus)
         IN  [buffer |-> sensor_buffer, exc |-> effect.exc, out |-> effect.out]
    ELSE SensorBranch(JsonLoads(message).value, llm_ok, bus)

\* LLMInferenceEngine.handle_sensor_message
HandleSensorMessage(message, llm_ok, bus) ==
    /\ proc = "engine"
    /\ LET body == EngineBody(message, llm_ok, bus)
           handled == ExceptException(body.exc)
       IN  /\ sensor_buffer' = body.buffer
           /\ bus_out' = body.out
           /\ Call("handle_sensor_message", message, handled.outcome, handled.value)
    /\ UNCHANGED <<envVars, engineVars, exchange, scan, now, chatVars, registryVars, broadcastVars>>

GetRecentSensorContext ==
    /\ proc = "engine"
    /\ LET context == get_recent_sensor_context(sensor_buffer, now)
       IN  Call("get_recent_sensor_context", NoValue,
                IF context.kind = "raised" THEN "raised" ELSE "returned", context)
    /\ UNCHANGED <<envVars, engineVars, exchange, scan, now, chatVars, registryVars, broadcastVars,
                   sensor_buffer, bus_out>>

\* LLMInferenceEngine.batch_inference: the exception that leaves it and what
\* it published.
batch_inference(buffer, llm_ok, bus) ==
    IF Len(buffer) < BatchSize THEN Effect("-", <<>>)
    ELSE LET recent_readings == LastN(buffer, BatchSize)
             analysis == analyze_with_llm(recent_readings, FALSE, FALSE, NoPrompt,
                                          llm_ok)
         IN  IF "kind" \in DOMAIN analysis /\ analysis.kind = "raised"
             THEN Effect(analysis.exc, <<>>)
             ELSE Effect("-",
                         publish_analysis(
                             [type |-> "batch_analysis",
                              reading_count |-> Len(recent_readings),
                              analysis |-> analysis,
                              timestamp |-> now],
                             bus))

\* One pass of the loop of run(): batch_inference when the interval has gone
\* by since last_batch_time, then sleep(1); an exception is logged, the
\* assignment of last_batch_time is skipped and the loop sleeps 5 seconds.
\* batch.last_run is the time of the latest call of batch_inference.
MainLoopPass(llm_ok, bus) ==
    /\ proc = "engine"
    /\ batch.clock < MaxLoopTime
    /\ LET current_time == batch.clock
       IN  IF current_time - batch.last_batch_time >= InferenceInterval
           THEN LET effect == batch_inference(sensor_buffer, llm_ok, bus)
                IN  /\ bus_out' = effect.out
                    /\ IF effect.exc = "-"
                       THEN /\ batch' = [clock |-> current_time + LoopSleep,
                                         last_batch_time |-> current_time,
                                         last_run |-> current_time]
                            /\ Call("batch_inference", NoValue, "returned", Done)
                       ELSE /\ batch' = [batch EXCEPT
                                            !.clock = current_time + ErrorSleep,
                                            !.last_run = current_time]
                            /\ Call("batch_inference", NoValue, "raised",
                                    Escaped(effect.exc))
           ELSE /\ batch' = [batch EXCEPT !.clock = current_time + LoopSleep]
                /\ Call("run", NoValue, "returned", Done)
                /\ UNCHANGED bus_out
    /\ UNCHANGED <<envVars, handlers, exchange, scan, now, chatVars, registryVars,
                   broadcastVars, sensor_buffer>>

\* handle_sensor_message up to the call of model inference: thread k decodes a
\* message of a sensor topic and appends the payload; a flagged reading takes
\* the thread into process_anomaly, where it stays until inference and the
\* publishes are over (SensorMessageEnd); any other payload ends the call.
SensorMessageBegin(k, message) ==
    /\ proc = "engine"
    /\ handlers[k].pc = "idle"
    /\ ~Contains(message.topic, "chat/requests")
    /\ LET body == EngineBody(message, TRUE, "up")
           handled == ExceptException(body.exc)
           payload == JsonLoads(message).value
       IN  /\ sensor_buffer' = body.buffer
           /\ IF JsonLoads(message).exc = "-" /\ payload.json = "object"
                 /\ IsAnomaly(payload)
              THEN /\ handlers' = [handlers EXCEPT
                                      ![k] = [pc |-> "process_anomaly",
                                              payload |-> payload]]
                   /\ Call("handle_sensor_message", message, "pending", NoValue)
                   /\ UNCHANGED bus_out
              ELSE /\ Call("handle_sensor_message", message, handled.outcome,
                           handled.value)
                   /\ bus_out' = body.out
                   /\ UNCHANGED handlers
    /\ UNCHANGED <<envVars, batch, exchange, scan, now, chatVars, registryVars,
                   broadcastVars>>

\* process_anomaly on thread k: analyze_with_llm, calculate_severity and the
\* blocking publishes of publish_analysis, then the return of the handler.
SensorMessageEnd(k, llm_ok, bus) ==
    /\ proc = "engine"
    /\ handlers[k].pc = "process_anomaly"
    /\ LET effect == process_anomaly(handlers[k].payload, llm_ok, bus)
           handled == ExceptException(effect.exc)
       IN  /\ bus_out' = effect.out
           /\ Call("handle_sensor_message",
                   BusMessage(SensorTopic, handlers[k].payload),
                   handled.outcome, handled.value)
    /\ handlers' = [handlers EXCEPT ![k] = IdleHandler]
    /\ UNCHANGED <<envVars, batch, exchange, scan, now, chatVars, registryVars,
                   broadcastVars, sensor_buffer>>

----------------------------------------------------------------------------
(* Telemetry bridge: TelemetryBridge.handle_message                        *)

TelemetryTopic == "$aws/things/greengrass-core-thing/greengrass/telemetry"

\* payload.get(key, default)
GetOr(field, default) == IF field = Absent THEN default ELSE field
FieldOr(payload, key, default) ==
    IF key \in DOMAIN payload THEN GetOr(payload[key], default) ELSE default

\* str(payload.get("is_anomaly", False))
PyStr(flag) == IF flag = "true" THEN "True" ELSE "False"

\* TelemetryBridge.transform_to_telemetry
transform_to_telemetry(topic, payload) ==
    IF Contains(topic, "sensors")
    THEN [namespace |-> "EdgeLLM/Sensors",
          name |-> GetOr(payload.sensor_id, "unknown"),
          unit |-> UnitOf(payload),
          value |-> LatestValue(payload),
          timestamp |-> IF payload.timestamp.tag = "absent"
                        THEN Stamp(now) ELSE payload.timestamp,
          metadata |-> [sensor_type |-> TypeOf(payload),
                        is_anomaly |-> PyStr(payload.is_anomaly)]]
    ELSE IF Contains(topic, "analysis")
    THEN [namespace |-> "EdgeLLM/Analysis",
          name |-> TypeOf(payload),
          unit |-> "Count",
          value |-> Num(1),
          timestamp |-> IF payload.timestamp.tag = "absent"
                        THEN Stamp(now) ELSE payload.timestamp,
          metadata |-> [analysis |-> FieldOr(payload, "analysis", ""),
                        severity |-> FieldOr(payload, "severity", "info"),
                        sensor_id |-> GetOr(payload.sensor_id, "all")]]
    ELSE [namespace |-> "EdgeLLM/Unknown", name |-> "data", unit |-> "Count",
          value |-> Num(1), timestamp |-> Stamp(now), metadata |-> payload]

\* publish_telemetry: one publish; a failure is logged.
publish_telemetry(telemetry_data, bus) ==
    IF bus # "down" THEN <<Published(TelemetryTopic, telemetry_data)>>
    ELSE <<Refused(TelemetryTopic, telemetry_data)>>

\* The try block of TelemetryBridge.handle_message
BridgeBody(message, bus) ==
    IF JsonLoads(message).exc # "-"
    THEN Effect(JsonLoads(message).exc, <<>>)
    ELSE IF JsonLoads(message).value.json # "object"
            /\ (Contains(message.topic, "sensors") \/ Contains(message.topic, "analysis"))
    THEN Effect("AttributeError", <<>>)
    ELSE Effect("-", publish_telemetry(
                        transform_to_telemetry(message.topic, JsonLoads(message).value),
                        bus))

\* TelemetryBridge.handle_message
BridgeHandleMessage(message, bus) ==
    /\ proc = "bridge"
    /\ LET body == BridgeBody(message, bus)
           handled == ExceptException(body.exc)
       IN  /\ bus_out' = body.out
           /\ Call("bridge_handle_message", message, handled.outcome, handled.value)
    /\ UNCHANGED <<envVars, engineVars, exchange, scan, now, chatVars, registryVars, broadcastVars, sensor_buffer>>

----------------------------------------------------------------------------
(* Initial state: the state after construction of the component. *)

\* Every variable but sensor_buffer after construction.
InitButBuffer ==
    /\ now = 0
    /\ sensor_data = <<>>
    /\ analysis_results = <<>>
    /\ chat_history = <<>>
    /\ active_connections = <<>>
    /\ accepted = {}
    /\ ended = {}
    /\ b_pc = "idle"
    /\ b_msg = NoValue
    /\ connections_copy = <<>>
    /\ b_idx = 1
    /\ b_delivered = {}
    /\ b_failed = {}
    /\ bus_out = <<>>
    /\ exchange = NoExchange
    /\ scan = NoScan
    /\ handlers = [k \in HandlerThreads |-> IdleHandler]
    /\ batch = LoopStart
    /\ op = "init"
    /\ outcome = "returned"
    /\ result = NoValue
    /\ call_time = 0
    /\ prev = NoPrev

InitState ==
    /\ sensor_buffer = <<>>
    /\ InitButBuffer

----------------------------------------------------------------------------
(* SpecBroadcast: the broadcast registry of the chat server. *)

InitBroadcast ==
    /\ proc = "chatbot"
    /\ config = DefaultSensors
    /\ model_loaded = FALSE
    /\ arg = NoValue
    /\ InitState

NextBroadcast ==
    \/ \E ws \in Listeners : ConnectWebsocket(ws)
    \/ \E ws \in Listeners : WebsocketHandlerEnd(ws)
    \/ \E m \in BroadcastMessages : BroadcastMessage(m)
    \/ BroadcastSendOk
    \/ BroadcastSendFail

SpecBroadcast == InitBroadcast /\ [][NextBroadcast]_vars

----------------------------------------------------------------------------
(* C1: one broadcast_message call delivers the message to every listener  *)
(* of its snapshot whose send does not fail, never raises to its caller,  *)
(* and when it has returned no failed listener is in the registry while   *)
(* every listener that did not fail is still there, unless that           *)
(* listener's own connection handler ended in the meantime.               *)
C1_BroadcastIsolation ==
    /\ b_pc # "raised"
    /\ b_pc = "done" =>
          /\ b_delivered = Range(connections_copy) \ b_failed
          /\ b_failed \cap Range(active_connections) = {}
          /\ \A ws \in Range(connections_copy) \ b_failed :
                ws \in Range(active_connections) \/ ws \in ended

\* Three listeners, the second failed: the first and third were served and
\* are still registered, the second is gone.
C1_Witness ==
    /\ b_pc = "done"
    /\ connections_copy = <<1, 2, 3>>
    /\ b_failed = {2}
    /\ b_delivered = {1, 3}
    /\ active_connections = <<1, 3>>


----------------------------------------------------------------------------
(* SpecSeverity: the classifier applied to readings of every kind under    *)
(* threshold configurations that include zero and negative bounds.        *)

ThresholdBounds == {-5, 0, 20, 80}

SeverityConfigs ==
    {DefaultSensors} \cup
    { [temperature |-> [min |-> lo, max |-> hi]] :
          lo \in ThresholdBounds, hi \in ThresholdBounds }

SeverityTypes == {"temperature", "humidity"}

SeverityReadings ==
    { Reading("s1", type, Num(v), "u", flag, Stamp(0)) :
          type \in SeverityTypes,
          v \in -MaxNegativeValue..MaxSeverityValue,
          flag \in {"true", "false"} }
    \cup { Reading("s1", "temperature", NoNum, "u", "true", Stamp(0)),
           Reading("s1", "temperature", StrNum, "u", "true", Stamp(0)),
           Reading("s1", Absent, Num(50), "u", "true", Stamp(0)) }

\* The thresholds and the reading are drawn here; the action classifies it.
InitSeverity ==
    /\ proc = "engine"
    /\ config \in SeverityConfigs
    /\ model_loaded = FALSE
    /\ arg \in SeverityReadings
    /\ InitState

NextSeverity == op = "init" /\ CalculateSeverity(arg)

SpecSeverity == InitSeverity /\ [][NextSeverity]_vars

\* The reading and thresholds of the last classification.
SevCalled == op = "calculate_severity"
SevValue == arg.value.n
SevMin == MinVal(config, arg.type)
SevMax == MaxVal(config, arg.type)
SevNumeric == arg.json = "object" /\ arg.value.tag = "num" /\ arg.type # Absent
SevAbove == SevNumeric /\ SevValue > SevMax
SevBelow == SevNumeric /\ ~SevAbove /\ SevValue < SevMin
\* d is defined: the divisor of the claim's quotient is not zero.
SevDefined == SevNumeric /\ (SevAbove => SevMax # 0) /\ (SevBelow => SevMin # 0)

\* d > p/q for the claim's d, by cases on the sign of the divisor.
SevExceeds(p, q) ==
    \/ /\ SevAbove
       /\ \/ SevMax > 0 /\ q * (SevValue - SevMax) > p * SevMax
          \/ SevMax < 0 /\ q * (SevValue - SevMax) < p * SevMax
    \/ /\ SevBelow
       /\ \/ SevMin > 0 /\ q * (SevMin - SevValue) > p * SevMin
          \/ SevMin < 0 /\ q * (SevMin - SevValue) < p * SevMin

(* C4: wherever the deviation d is defined, the classifier returns        *)
(* critical exactly when d > 0.5, warning exactly when 0.2 < d <= 0.5 and  *)
(* the lowest tier (named "info" in the code, normal in the               *)
(* specification) otherwise; with {min=20,max=80}, 80 is in the lowest    *)
(* tier and 120 is warning.                                               *)
C4_SeverityBands ==
    (SevCalled /\ SevDefined) =>
        /\ result.kind = "severity"
        /\ result.tier = "critical" <=> SevExceeds(1, 2)
        /\ result.tier = "warning" <=> (SevExceeds(1, 5) /\ ~SevExceeds(1, 2))
        /\ result.tier = "info" <=> ~SevExceeds(1, 5)
        /\ (SevMin = 20 /\ SevMax = 80 /\ SevValue = 80) => result.tier = "info"
        /\ (SevMin = 20 /\ SevMax = 80 /\ SevValue = 120) => result.tier = "warning"

\* {min=20,max=80}, value 120: d is exactly 0.5 and the tier is warning.
C4_Witness ==
    /\ SevCalled /\ SevDefined
    /\ SevMin = 20 /\ SevMax = 80 /\ SevValue = 120
    /\ result.tier = "warning"

FlipFlag(r) ==
    [r EXCEPT !.is_anomaly = IF @ = "true" THEN "false" ELSE "true"]

(* C5: the tier does not depend on the reading's is_anomaly flag: the     *)
(* same reading with the flag flipped gets the same tier, every value     *)
(* inside [min, max] gets the lowest tier, and with {min:20,max:80} a     *)
(* reading of 90 flagged is_anomaly=true gets the lowest tier.            *)
C5_FlagIndependent ==
    SevCalled =>
        /\ result = calculate_severity(config, FlipFlag(arg))
        /\ (SevNumeric /\ SevMin <= SevValue /\ SevValue <= SevMax)
              => result = Tier("info")
        /\ (SevNumeric /\ SevMin = 20 /\ SevMax = 80 /\ SevValue = 90
               /\ arg.is_anomaly = "true") => result = Tier("info")

\* A flagged reading of 90 under {20, 80} classified in the lowest tier.
C5_Witness ==
    /\ SevCalled /\ SevNumeric
    /\ SevMin = 20 /\ SevMax = 80 /\ SevValue = 90
    /\ arg.is_anomaly = "true"
    /\ result = Tier("info")

SevUnconfigured == SevCalled /\ SevNumeric /\ arg.type \notin DOMAIN config

----------------------------------------------------------------------------
(* SpecWindow: readings arrive, the clock advances, summaries and contexts *)
(* are built.  The behaviour follows the chat server or the engine.        *)

\* Readings as the simulator stamps them at time t.
WindowReadings(t) ==
    { Reading("temperature_0", "temperature", Num(22), "C", "false", Stamp(t)),
      Reading("temperature_0", "temperature", Num(90), "C", "true", Stamp(t)),
      Reading("pressure_0", "pressure", Num(150), "kPa", "false", Stamp(t)) }

\* Payloads no simulator sends: no timestamp, a timestamp with an offset, a
\* JSON list.
OddPayloads(t) ==
    { Reading("temperature_0", "temperature", Num(30), "C", "true", NoStamp),
      Reading("pressure_0", "pressure", Num(170), "kPa", "true", AwareStamp(t)),
      JsonList }

\* An analysis result as the engine publishes it at time t.
AnalysisPayload(t) ==
    [json |-> "object", type |-> "anomaly_detection", sensor_id |-> "temperature_0",
     analysis |-> "Anomaly detected", severity |-> "warning", timestamp |-> Stamp(t)]

InitWindow ==
    /\ proc \in {"chatbot", "engine"}
    /\ config = DefaultSensors
    /\ model_loaded = FALSE
    /\ arg = NoValue
    /\ InitState

NextWindow ==
    \/ \E payload \in WindowReadings(now) \cup OddPayloads(now) :
          HandleMessage(BusMessage(SensorTopic, payload), FALSE)
    \/ \E payload \in WindowReadings(now) \cup OddPayloads(now) :
          HandleSensorMessage(BusMessage(SensorTopic, payload), TRUE, "up")
    \/ Tick
    \/ GetSensorSummary
    \/ GetSensorContextForLLM
    \/ GetRecentSensorContext

SpecWindow == InitWindow /\ [][NextWindow]_vars

\* The buffered entries a window of duration D holds at time t: those whose
\* timestamp reads as a time with t - timestamp <= D.
Fresh(buffer, t, D) ==
    {i \in 1..Len(buffer) :
        /\ buffer[i].json = "object"
        /\ buffer[i].timestamp.tag = "naive"
        /\ t - buffer[i].timestamp.t <= D}

FreshOfType(buffer, t, D, type) ==
    {i \in Fresh(buffer, t, D) : TypeOf(buffer[i]) = type}

Flagged(buffer, indexes) == {i \in indexes : buffer[i].is_anomaly = "true"}

Values(buffer, indexes) == {buffer[i].value.n : i \in indexes}

Least(S) == CHOOSE x \in S : \A y \in S : x <= y
Greatest(S) == CHOOSE x \in S : \A y \in S : x >= y

AllStamped(buffer) ==
    \A i \in 1..Len(buffer) :
        buffer[i].json = "object" /\ buffer[i].timestamp.tag = "naive"

\* The one-hour summary counts exactly the readings of its window.
SummaryOfWindowOnly ==
    (op = "get_sensor_summary" /\ outcome = "returned") =>
        LET window == Fresh(sensor_data, call_time, SummaryWindow)
        IN  IF result.kind = "message" THEN window = {}
            ELSE /\ result.total_readings = Cardinality(window)
                 /\ result.anomaly_count = Cardinality(Flagged(sensor_data, window))
                 /\ DOMAIN result.sensor_summary =
                        {TypeOf(sensor_data[i]) : i \in window}
                 /\ \A type \in DOMAIN result.sensor_summary :
                       LET of_type == FreshOfType(sensor_data, call_time,
                                                  SummaryWindow, type)
                           entry == result.sensor_summary[type]
                       IN  /\ entry.count = Cardinality(of_type)
                           /\ entry.min_value = Finite(Least(Values(sensor_data, of_type)))
                           /\ entry.max_value = Finite(Greatest(Values(sensor_data, of_type)))
                           /\ 100 * Least(Values(sensor_data, of_type)) <= entry.avg_value
                           /\ entry.avg_value <= 100 * Greatest(Values(sensor_data, of_type))

\* The 30-minute context of the chat server counts exactly the readings of
\* its window.
ChatContextOfWindowOnly ==
    (op = "get_sensor_context_for_llm" /\ outcome = "returned") =>
        LET window == Fresh(sensor_data, call_time, ContextWindow)
        IN  IF result.status # "-" THEN window = {}
            ELSE /\ result.total_readings_30min = Cardinality(window)
                 /\ result.total_anomalies_30min =
                        Cardinality(Flagged(sensor_data, window))
                 /\ \A type \in DOMAIN result.sensor_data_summary :
                       Len(result.sensor_data_summary[type]) =
                           Cardinality(FreshOfType(sensor_data, call_time,
                                                   ContextWindow, type))

\* The chat context of the engine counts exactly the readings of the last
\* 30 minutes.
EngineContextOfWindowOnly ==
    (op = "get_recent_sensor_context" /\ outcome = "returned"
     /\ AllStamped(sensor_buffer)) =>
        LET window == Fresh(sensor_buffer, call_time, ContextWindow)
        IN  IF result.status # "-" THEN window = {}
            ELSE /\ result.total_readings = Cardinality(window)
                 /\ result.total_anomalies =
                        Cardinality(Flagged(sensor_buffer, window))

\* C2: a summary or context computed for a window of duration D (one hour
\* for the sensor summary, 30 minutes for the chat context) counts only
\* readings with now - timestamp <= D; no older reading contributes to the
\* count, the mean, the extremes or the anomaly count.
C2_WindowOnly ==
    /\ SummaryOfWindowOnly
    /\ ChatContextOfWindowOnly
    /\ EngineContextOfWindowOnly

\* The empty window of the one-hour summary at the time of the last call.
SummaryWindowEmpty ==
    /\ op = "get_sensor_summary"
    /\ Fresh(sensor_data, call_time, SummaryWindow) = {}

\* C9 as claimed: summarising a window with zero entries does not raise and
\* returns a summary with count 0 and with mean, min and max all 0.
C9_Claimed ==
    SummaryWindowEmpty =>
        /\ outcome = "returned"
        /\ result.kind = "summary"
        /\ result.total_readings = 0
        /\ \A type \in DOMAIN result.sensor_summary :
              /\ result.sensor_summary[type].count = 0
              /\ result.sensor_summary[type].avg_value = 0
              /\ result.sensor_summary[type].min_value = Finite(0)
              /\ result.sensor_summary[type].max_value = Finite(0)

\* C9 as amended: summarising a window with zero entries does not raise and
\* returns a result that carries a message and no count, mean, min or max;
\* every per-type entry of a summary that is returned has a count of at least
\* one and finite extremes, so the infinite initial extremes are never
\* returned.
C9_EmptyWindowMessage ==
    /\ SummaryWindowEmpty =>
          /\ outcome = "returned"
          /\ result.kind = "message"
          /\ DOMAIN result = {"kind", "message"}
    /\ (op = "get_sensor_summary" /\ result.kind = "summary") =>
          \A type \in DOMAIN result.sensor_summary :
              /\ result.sensor_summary[type].count >= 1
              /\ result.sensor_summary[type].min_value.inf = 0
              /\ result.sensor_summary[type].max_value.inf = 0

\* A summary asked for when every buffered reading has left the window.
C9_Witness ==
    /\ SummaryWindowEmpty
    /\ \E i \in 1..Len(sensor_data) : sensor_data[i].timestamp.tag = "naive"
    /\ result.kind = "message"

BuildOps == {"get_sensor_context_for_llm", "get_recent_sensor_context"}

\* Two builds in a row: no message was handled between them.
BuiltTwice == op \in BuildOps /\ prev.op = op

\* C10 as claimed: two consecutive builds with no observed reading between
\* them return equal snapshots.
C10_Claimed == BuiltTwice => result = prev.result

\* C10 as amended: two consecutive builds of the chat server's context with
\* no reading observed between them return equal snapshots when no buffered
\* reading left the 30-minute window between the two calls; two consecutive
\* builds of the engine's context return snapshots that are equal in
\* everything but the timestamp, which is the time of each call.
C10_EqualUpToTime ==
    BuiltTwice =>
        /\ (op = "get_sensor_context_for_llm"
            /\ Fresh(sensor_data, call_time, ContextWindow) =
                  Fresh(sensor_data, prev.call_time, ContextWindow))
              => result = prev.result
        /\ (op = "get_recent_sensor_context" /\ result.kind = "engine_context"
            /\ result.status = "-")
              => /\ prev.result.kind = "engine_context"
                 /\ prev.result.status = "-"
                 /\ result.timestamp = call_time
                 /\ [result EXCEPT !.timestamp = prev.result.timestamp] = prev.result
        /\ (op = "get_recent_sensor_context"
            /\ ~(result.kind = "engine_context" /\ result.status = "-"))
              => result = prev.result

\* A second build at a later time than the first, over a buffer that holds
\* readings.
C10_Witness ==
    /\ BuiltTwice
    /\ call_time > prev.call_time
    /\ result.kind \in {"context", "engine_context"}
    /\ result.status = "-"

----------------------------------------------------------------------------
(* SpecHandlers: the bus adapter delivers messages to the handler of the   *)
(* chat server, of the engine or of the telemetry bridge; the chat server  *)
(* also answers questions.                                                 *)

ValidReading == Reading("temperature_0", "temperature", Num(22), "C", "false", Stamp(0))
FlaggedReading == Reading("temperature_0", "temperature", Num(90), "C", "true", Stamp(0))

UnstampedReading ==
    Reading("temperature_0", "temperature", Num(22), "C", "false", NoStamp)

\* Payloads in which a field is missing or invalid: no sensor_id, a value
\* below a minimum of 0, a JSON list.
InvalidPayloads ==
    { Reading(Absent, "temperature", Num(90), "C", "true", Stamp(0)),
      Reading("vibration_0", "vibration", Num(-1), "mm/s", "true", Stamp(0)),
      JsonList }

Encodings == {"not_json", "not_utf8", "no_binary"}

ChatbotMessages ==
    {BusMessage(SensorTopic, payload) :
        payload \in {ValidReading, UnstampedReading}}
    \cup {Malformed(SensorTopic, "not_json"),
          BusMessage(AnalysisTopic, AnalysisPayload(0)),
          BusMessage(ChatResponseTopic, ChatResponse("hello", Text("answer"), TRUE))}

NoData == [kind |-> "context", status |-> "No recent sensor data available"]

ChatRequests ==
    {ChatRequest("Any anomaly?", [kind |-> "absent"]),
     ChatRequest("temperature", create_context_aware_prompt("temperature", NoData)),
     ChatRequest(NonString, [kind |-> "absent"]), JsonList}

EngineMessages ==
    {BusMessage(SensorTopic, payload) :
        payload \in {ValidReading, FlaggedReading} \cup InvalidPayloads}
    \cup {Malformed(SensorTopic, enc) : enc \in Encodings}
    \cup {BusMessage(ChatRequestTopic, payload) : payload \in ChatRequests}

BridgeMessages ==
    {BusMessage(SensorTopic, payload) :
        payload \in {ValidReading, FlaggedReading} \cup InvalidPayloads}
    \cup {Malformed(SensorTopic, enc) : enc \in Encodings}
    \cup {BusMessage(AnalysisTopic, AnalysisPayload(0)),
          BusMessage(AnalysisTopic, JsonList),
          BusMessage(ChatResponseTopic, JsonList)}

Questions == {"hello", "   "}

InitHandlers ==
    /\ proc \in {"chatbot", "engine", "bridge"}
    /\ config = DefaultSensors
    /\ model_loaded \in (IF proc = "engine" THEN BOOLEAN ELSE {FALSE})
    /\ arg = NoValue
    /\ InitState

NextHandlers ==
    \/ \E message \in ChatbotMessages, loop_running \in BOOLEAN :
          HandleMessage(message, loop_running)
    \/ BroadcastTaskStart
    \/ \E message \in Questions : ChatWithLLM(message, "up")
    \/ \E message \in EngineMessages, bus \in BusStates :
          \E llm_ok \in (IF model_loaded THEN BOOLEAN ELSE {TRUE}) :
             HandleSensorMessage(message, llm_ok, bus)
    \/ \E message \in BridgeMessages, bus \in {"up", "down"} :
          BridgeHandleMessage(message, bus)

SpecHandlers == InitHandlers /\ [][NextHandlers]_vars

HandlerOps == {"handle_message", "handle_sensor_message", "bridge_handle_message"}

\* The last call was a handler taking a decoded payload from a sensor topic.
SensorIngest(handler) ==
    /\ op = handler
    /\ arg.enc = "json"
    /\ Contains(arg.topic, "sensors")

\* buffer_after is buffer_before with x ingested under capacity cap: x is the
\* newest entry, and the oldest entry went if and only if the buffer was full.
Ingested(buffer_before, buffer_after, x, cap) ==
    /\ Len(buffer_after) <= cap
    /\ buffer_after # <<>>
    /\ buffer_after[Len(buffer_after)] = x
    /\ IF Len(buffer_before) = cap
       THEN SubSeq(buffer_after, 1, cap - 1) = Tail(buffer_before)
       ELSE SubSeq(buffer_after, 1, Len(buffer_after) - 1) = buffer_before

\* C3: no buffer ever holds more entries than its capacity, and ingesting
\* into a full buffer is never refused: the oldest entry is evicted and the
\* newest is kept.
C3_BoundedEviction ==
    [][ /\ Len(sensor_data') <= SensorDataMaxLen
        /\ Len(analysis_results') <= AnalysisResultsMaxLen
        /\ Len(chat_history') <= ChatHistoryLimit
        /\ Len(sensor_buffer') <= SensorBufferMaxLen
        /\ SensorIngest("handle_message")' =>
              Ingested(sensor_data, sensor_data', arg'.payload, SensorDataMaxLen)
        /\ (op' = "handle_message" /\ arg'.enc = "json"
            /\ Contains(arg'.topic, "analysis")) =>
              Ingested(analysis_results, analysis_results', arg'.payload,
                       AnalysisResultsMaxLen)
        /\ SensorIngest("handle_sensor_message")' =>
              Ingested(sensor_buffer, sensor_buffer', arg'.payload,
                       SensorBufferMaxLen)
        /\ (op' = "chat_with_llm" /\ outcome' # "http_400") =>
              \E user_entry \in {ChatEntry("user", Strip(arg'.text), now)} :
                 \E between \in {DequeAppend(chat_history, user_entry,
                                             ChatHistoryLimit)} :
                    /\ Ingested(chat_history, between, user_entry, ChatHistoryLimit)
                    /\ Ingested(between, chat_history', result', ChatHistoryLimit)
      ]_vars

\* Two questions in a row were answered: four entries went into the chat
\* history, which is full and ends with the newest answer.
C3_Witness ==
    /\ op = "chat_with_llm"
    /\ outcome # "http_400"
    /\ prev.op = "chat_with_llm"
    /\ prev.result.kind = "entry"
    /\ Len(chat_history) = ChatHistoryLimit
    /\ chat_history[Len(chat_history)] = result

\* A payload in which sensor_id, type, value or timestamp is missing or invalid.
Incomplete(payload) ==
    \/ payload.json # "object"
    \/ payload.sensor_id = Absent
    \/ payload.type = Absent
    \/ payload.value.tag # "num"
    \/ payload.timestamp.tag \notin {"naive", "aware"}

\* C7: the ingest of a payload in which sensor_id, sensor_type, value or
\* timestamp is missing or invalid rejects it: the payload is added to no
\* buffer.  (The program keeps no rejection counter to state the rest with.)
C7_InvalidRejected ==
    ((SensorIngest("handle_message") \/ SensorIngest("handle_sensor_message"))
     /\ Incomplete(arg.payload)) =>
        /\ arg.payload \notin Range(sensor_data)
        /\ arg.payload \notin Range(sensor_buffer)

\* C8: for every inbound message, also one that is no JSON, wrongly typed or
\* incomplete, the handler returns without raising to the bus adapter, and
\* the component keeps handling later messages: a well-formed reading that
\* follows a message whose handling failed is handled as any other.
C8_HandlersNeverRaise ==
    /\ op \in HandlerOps =>
          /\ outcome = "returned"
          /\ result.kind \in {"done", "logged"}
    /\ (op \in HandlerOps /\ prev.op = op /\ prev.result.kind = "logged"
        /\ arg = BusMessage(SensorTopic, ValidReading)) =>
          /\ result = Done
          /\ proc = "chatbot" => sensor_data[Len(sensor_data)] = ValidReading
          /\ proc = "engine" => sensor_buffer[Len(sensor_buffer)] = ValidReading

\* The engine handled a well-formed reading right after a message whose
\* handling raised inside the handler.
C8_Witness ==
    /\ proc = "engine"
    /\ op = "handle_sensor_message"
    /\ prev.op = op
    /\ prev.result.kind = "logged"
    /\ arg = BusMessage(SensorTopic, ValidReading)
    /\ result = Done


----------------------------------------------------------------------------
(* SpecChat: the chat server answers questions that come in by POST /chat  *)
(* and over listeners' websockets while the bus delivers readings and      *)
(* chat responses.  The clock stands still.                                *)

ChatListeners == 1..NumChatListeners

HttpQuestions ==
    {"", "   ", "What is the status?", "Any anomaly?", "temperature", "hello"}

SimpleChatMessages == {"", "   ", "hello", NonString}

ChatBusMessages ==
    {BusMessage(SensorTopic, FlaggedReading),
     BusMessage(ChatResponseTopic, ChatResponse("hello", Text("answer"), TRUE))}

\* The thread of the event loop is not blocked in the wait of a publish.
LoopFree == exchange.state # "pending"

InitChat ==
    /\ proc \in {"chatbot", "simple_chatbot"}
    /\ config = DefaultSensors
    /\ model_loaded \in (IF proc = "simple_chatbot" THEN BOOLEAN ELSE {FALSE})
    /\ arg = NoValue
    /\ InitState

NextChat ==
    \/ \E message \in ChatBusMessages : HandleMessage(message, FALSE)
    \/ \E message \in HttpQuestions, bus \in {"up", "down"} :
          ChatWithLLMBegin(message, bus)
    \/ \E send_ok \in BOOLEAN : QueryLLMReturn(send_ok)
    \/ \E message \in SimpleChatMessages, influx_ok \in BOOLEAN :
          SimpleChat(message, influx_ok)

SpecChat == InitChat /\ [][NextChat]_vars

\* The one publish request of the last chat question.
ChatRequestOf(out) == out[1].payload

\* The request on the chat-request topic carries the question and the context
\* of the exchange x.
CarriesQuestionAndContext(out, x) ==
    /\ Len(out) = 1
    /\ out[1].topic = ChatRequestTopic
    /\ ChatRequestOf(out).message = x.question
    /\ ChatRequestOf(out).enhanced_prompt.question = x.question
    /\ ChatRequestOf(out).enhanced_prompt.context = x.context

C18_PublishFailureContained ==
    [][ /\ exchange'.state = "pending" => Len(bus_out') = 1
        /\ (exchange.state = "pending" /\ ~bus_out[1].ok) =>
              /\ bus_out' = bus_out
              /\ exchange'.state = "resolved" =>
                    /\ exchange'.answer =
                          generate_contextual_response(exchange.question,
                                                       exchange.context)
                    /\ op' = "chat_with_llm"
                    /\ outcome' = "returned"
                    /\ result'.message = exchange'.answer ]_vars

\* A question whose publish the bus refused has been answered.
C18_Witness ==
    /\ op = "chat_with_llm"
    /\ outcome = "returned"
    /\ exchange.state = "resolved"
    /\ Len(bus_out) = 1
    /\ ~bus_out[1].ok
    /\ result.message = generate_contextual_response(exchange.question, exchange.context)

\* The answers that say that there is no recent data.
NoDataAnswers ==
    {Text("I don't have recent sensor data to provide a system status.")}
    \cup {[text |-> "No recent data available.", type |-> type] :
             type \in {"temperature", "pressure", "vibration"}}

\* C17: when the context of a question was built with no reading observed,
\* it holds no per-type data and the answer, whatever the question's intent,
\* is one that says no recent data is available and gives no count of
\* readings or anomalies.
C17_NoDataAnswer ==
    (exchange.state = "resolved" /\ exchange.context = NoData) =>
        /\ "sensor_data_summary" \notin DOMAIN exchange.context
        /\ exchange.answer \in NoDataAnswers
        /\ "readings" \notin DOMAIN exchange.answer
        /\ "anomalies" \notin DOMAIN exchange.answer

\* The exchange after a step is the exchange before it, one state further.
SameExchange(x, y) ==
    /\ y.entry = x.entry
    /\ y.question = x.question
    /\ y.context = x.context

EmptyChatRequest ==
    /\ op' \in {"chat_with_llm", "simple_chat"}
    /\ arg'.text \in {"", "   "}

\* C15: a chat request with an empty or whitespace-only message is answered
\* with status 400 and changes nothing: no history entry, no publish
\* request, no broadcast, no exchange.
C15_EmptyRejected ==
    [][ EmptyChatRequest =>
           /\ outcome' = "http_400"
           /\ UNCHANGED <<chatVars, registryVars, broadcastVars, sensor_buffer,
                          bus_out, exchange>> ]_vars

\* A whitespace-only question was refused by a server that has answered a
\* question before.
C15_Witness ==
    /\ op = "chat_with_llm"
    /\ arg.text = "   "
    /\ outcome = "http_400"
    /\ chat_history # <<>>
    /\ bus_out # <<>>

----------------------------------------------------------------------------
(* SpecFanout: listeners connect to the chat server, questions come in by   *)
(* POST /chat and over the listeners' websockets, and the bus delivers      *)
(* chat responses of the inference engine.  (Listeners that leave and       *)
(* broadcasts whose sends fail are the subject of SpecBroadcast.)           *)

FanoutHttpQuestions == {"hello"}

FanoutWebsocketQuestions == {""}

FanoutBusMessages ==
    {BusMessage(ChatResponseTopic, ChatResponse("hello", Text("answer"), TRUE))}

InitFanout ==
    /\ proc = "chatbot"
    /\ config = DefaultSensors
    /\ model_loaded = FALSE
    /\ arg = NoValue
    /\ InitState

NextFanout ==
    \/ \E ws \in ChatListeners : LoopFree /\ ConnectWebsocket(ws)
    \/ \E message \in FanoutBusMessages, loop_running \in BOOLEAN :
          HandleMessage(message, loop_running)
    \/ LoopFree /\ BroadcastTaskStart
    \/ LoopFree /\ BroadcastSendOk
    \/ \E message \in FanoutHttpQuestions : ChatWithLLMBegin(message, "up")
    \/ \E ws \in ChatListeners, message \in FanoutWebsocketQuestions :
          WebsocketChatBegin(ws, message, "up")
    \/ \E send_ok \in BOOLEAN : QueryLLMReturn(send_ok)

SpecFanout == InitFanout /\ [][NextFanout]_vars

\* The last call was handle_message with a decoded chat response.
ChatResponseArrived ==
    /\ op = "handle_message"
    /\ arg.enc = "json"
    /\ arg.topic = ChatResponseTopic

\* C12: a response that arrives on the chat-response topic is not discarded:
\* when handle_message has returned, the broadcast of that response is
\* scheduled on the event loop, and the answer of the last question is what
\* it was.
C12_ResponseBroadcast ==
    [][ ChatResponseArrived' =>
           /\ b_pc' = "scheduled"
           /\ b_msg' = arg'.payload
           /\ exchange'.answer = exchange.answer ]_vars

\* C13: in the step in which a chat question is answered, by whichever entry
\* point (and unless the asking websocket could not be written to), the
\* answer goes to the broadcast registry: a broadcast of an entry holding the
\* answer begins over all listeners connected at that moment.
C13_AnswerBroadcast ==
    [][ (exchange.state = "pending" /\ exchange'.state = "resolved"
         /\ outcome' # "ended") =>
           /\ b_pc' \in {"sending", "done"}
           /\ b_msg' = ChatEntry("assistant", exchange'.answer, now)
           /\ connections_copy' = active_connections
           /\ b_delivered' = {} ]_vars

\* C14: every message that a broadcast has delivered to a listener is an
\* object of type "response" with a message and a timestamp.
C14_ResponseShape ==
    b_delivered # {} =>
        /\ b_msg.type = "response"
        /\ {"message", "timestamp"} \subseteq DOMAIN b_msg

----------------------------------------------------------------------------
(* The iteration of broadcast_message over its snapshot (SpecBroadcast).    *)

Attempted == b_delivered \cup b_failed

\* The step is one delivery attempt of the broadcast in progress.
AttemptStep == b_pc = "sending" /\ Attempted' # Attempted

\* While a broadcast is in progress its snapshot stays as it was taken, and a
\* listener that connects or whose handler ends changes nothing of the
\* iteration.
SnapshotUndisturbed ==
    /\ b_pc = "sending" => connections_copy' = connections_copy
    /\ (b_pc = "sending" /\ op' \in {"connect_websocket", "websocket_end"}) =>
          UNCHANGED broadcastVars

\* Every attempt is made on the next listener of the snapshot, which was not
\* attempted before, and a finished broadcast has attempted every listener
\* of its snapshot.
OneAttemptEach ==
    /\ AttemptStep =>
          /\ connections_copy[b_idx] \notin Attempted
          /\ Attempted' = Attempted \cup {connections_copy[b_idx]}
          /\ b_idx' = b_idx + 1
    /\ b_pc' = "done" =>
          /\ Attempted' = Range(connections_copy')
          /\ b_delivered' \cap b_failed' = {}

\* A listener whose delivery fails while listeners of the snapshot remain to
\* be served stays in the live registry.
RemovalDeferred ==
    (AttemptStep /\ b_failed' # b_failed /\ b_pc' = "sending") =>
        (connections_copy[b_idx] \in Range(active_connections) =>
            connections_copy[b_idx] \in Range(active_connections'))

\* A listener whose delivery fails is out of the live registry when the
\* attempt is over, whether or not listeners of the snapshot remain.
RemovalAtOnce ==
    (AttemptStep /\ b_failed' # b_failed) =>
        /\ connections_copy[b_idx] \notin Range(active_connections')
        /\ \A ws \in Range(active_connections) \ {connections_copy[b_idx]} :
              ws \in Range(active_connections')

\* C19 as claimed: the broadcast iterates a snapshot that connecting and
\* disconnecting listeners do not disturb, attempts each listener of the
\* snapshot exactly once, and removes the listeners whose delivery failed
\* from the live registry only after the iteration has completed.
C19_Claimed ==
    [][SnapshotUndisturbed /\ OneAttemptEach /\ RemovalDeferred]_vars

\* C19: the broadcast iterates a snapshot that connecting and disconnecting
\* listeners do not disturb, attempts each listener of the snapshot exactly
\* once, and removes a listener whose delivery failed from the live
\* registry at once, inside the iteration, before the next attempt.
C19_SnapshotIteration ==
    [][SnapshotUndisturbed /\ OneAttemptEach /\ RemovalAtOnce]_vars

\* A broadcast over three listeners is in progress: the first failed and is
\* out of the registry, the second has ended its handler meanwhile, and the
\* third is still to be served.
C19_Witness ==
    /\ b_pc = "sending"
    /\ connections_copy = <<1, 2, 3>>
    /\ b_idx = 2
    /\ b_failed = {1}
    /\ active_connections = <<3>>
    /\ 2 \in ended

----------------------------------------------------------------------------
(* SpecScan: request handlers of the chat server loop over sensor_data on   *)
(* the thread of the event loop while the bus client's thread delivers      *)
(* readings to handle_message.                                              *)

ScanBusMessages ==
    {BusMessage(SensorTopic, ValidReading), BusMessage(SensorTopic, FlaggedReading),
     Malformed(SensorTopic, "not_json")}

InitScan ==
    /\ proc = "chatbot"
    /\ config = DefaultSensors
    /\ model_loaded = FALSE
    /\ arg = NoValue
    /\ InitState

NextScan ==
    \/ \E message \in ScanBusMessages : HandleMessage(message, FALSE)
    \/ \E reader \in Readers : ScanBegin(reader)
    \/ ScanNext

SpecScan == InitScan /\ [][NextScan]_vars

\* The step is handle_message appending a reading to sensor_data.
ObserveStep ==
    /\ op' = "handle_message"
    /\ arg'.enc = "json"
    /\ Contains(arg'.topic, "sensors")

\* C20: observe and summarize exclude each other on the buffer: no reading
\* is appended to sensor_data while a handler's loop over it is under way,
\* so no loop ever finds its buffer changed.
C20_MutualExclusion ==
    [][ /\ ObserveStep => scan.pc # "iterating"
        /\ ~scan'.mutated ]_vars

----------------------------------------------------------------------------
(* Eviction by the summary request (SpecWindow).                           *)

\* The buffered entries whose timestamp is older than t - D.
Expired(buffer, t, D) ==
    {i \in 1..Len(buffer) :
        /\ buffer[i].json = "object"
        /\ buffer[i].timestamp.tag = "naive"
        /\ buffer[i].timestamp.t < t - D}

\* C21: when get_sensor_summary (window of one hour) or
\* get_sensor_context_for_llm (window of 30 minutes) has returned, the buffer
\* holds no entry older than the window of that call.
C21_SummaryEvicts ==
    /\ (op = "get_sensor_summary" /\ outcome = "returned") =>
          Expired(sensor_data, call_time, SummaryWindow) = {}
    /\ (op = "get_sensor_context_for_llm" /\ outcome = "returned") =>
          Expired(sensor_data, call_time, ContextWindow) = {}

----------------------------------------------------------------------------
(* SpecThreads: the bus client calls handle_sensor_message on its threads; *)
(* a message may be delivered more than once and in any order.             *)

ThreadMessages ==
    {BusMessage(SensorTopic, payload) :
        payload \in {ValidReading, FlaggedReading,
                     Reading("vibration_0", "vibration", Num(-1), "mm/s", "true",
                             Stamp(0))}}

InitThreads ==
    /\ proc = "engine"
    /\ config = DefaultSensors
    /\ model_loaded \in BOOLEAN
    /\ arg = NoValue
    /\ InitState

NextThreads ==
    \/ \E k \in HandlerThreads, message \in ThreadMessages :
          SensorMessageBegin(k, message)
    \/ \E k \in HandlerThreads, bus \in BusStates :
          \E llm_ok \in (IF model_loaded THEN BOOLEAN ELSE {TRUE}) :
             SensorMessageEnd(k, llm_ok, bus)

SpecThreads == InitThreads /\ [][NextThreads]_vars

\* C22: no invocation of the ingestion callback is ever waiting for model
\* inference or for a publish: the callback returns once the reading is in
\* the buffer.
C22_IngestNeverWaits ==
    \A k \in HandlerThreads : handlers[k].pc # "process_anomaly"

\* C23: of one anomalous reading at most one classification is in flight at
\* any time, whichever threads the deliveries of that reading run on.
C23_OneClassificationInFlight ==
    \A k1, k2 \in HandlerThreads :
        (/\ handlers[k1].pc = "process_anomaly"
         /\ handlers[k2].pc = "process_anomaly"
         /\ handlers[k1].payload = handlers[k2].payload) => k1 = k2

----------------------------------------------------------------------------
(* Claims about the engine's answers, checked under SpecHandlers.          *)

\* The engine's handler has handled a decoded message of the chat-request
\* topic.
ChatRequestHandled ==
    /\ proc = "engine"
    /\ op = "handle_sensor_message"
    /\ arg.enc = "json"
    /\ Contains(arg.topic, "chat/requests")

\* C26: to every chat request the engine has handled, exactly one
\* chat_response was sent to the chat-response topic, and it carries the
\* message of the request.
C26_OneResponsePerRequest ==
    ChatRequestHandled =>
        /\ Len(bus_out) = 1
        /\ bus_out[1].topic = ChatResponseTopic
        /\ bus_out[1].payload.type = "chat_response"
        /\ arg.payload.json = "object" =>
              bus_out[1].payload.original_message = MessageOf(arg.payload)

\* The engine's handler has handled a flagged reading that names its sensor
\* and carries a number.
FlaggedReadingHandled ==
    /\ proc = "engine"
    /\ op = "handle_sensor_message"
    /\ arg.enc = "json"
    /\ ~Contains(arg.topic, "chat/requests")
    /\ arg.payload.json = "object"
    /\ IsAnomaly(arg.payload)
    /\ arg.payload.sensor_id # Absent
    /\ arg.payload.value.tag = "num"

C28_UnavailableAsFailed ==
    (/\ ChatRequestHandled
     /\ ~model_loaded
     /\ arg.payload.json = "object"
     /\ MessageOf(arg.payload) # NonString
     /\ get_recent_sensor_context(sensor_buffer, now).kind # "raised") =>
        /\ Len(bus_out) = 1
        /\ bus_out[1].payload.response =
              mock_inference(<<get_recent_sensor_context(sensor_buffer, now)>>,
                             FALSE, TRUE, PromptFor(arg.payload))

----------------------------------------------------------------------------
(* SpecBatch: readings arrive while the loop of run() passes.              *)

BatchMessages ==
    {BusMessage(SensorTopic, payload) :
        payload \in {ValidReading,
                     Reading("temperature_0", "temperature", StrNum, "C", "false",
                             Stamp(0)),
                     Reading("pressure_0", "pressure", Num(150), "kPa", "false",
                             Stamp(0))}}

InitBatch ==
    /\ proc = "engine"
    /\ config = DefaultSensors
    /\ model_loaded \in BOOLEAN
    /\ arg = NoValue
    /\ InitState

NextBatch ==
    \/ \E message \in BatchMessages : HandleSensorMessage(message, TRUE, "up")
    \/ \E bus \in BusStates :
          \E llm_ok \in (IF model_loaded THEN BOOLEAN ELSE {TRUE}) :
             MainLoopPass(llm_ok, bus)

SpecBatch == InitBatch /\ [][NextBatch]_vars

\* A step of the loop in which batch_inference is called.
BatchRun == batch'.last_run # batch.last_run

\* C30: a batch_analysis is sent only with at least batchSize readings
\* buffered, it is over the batchSize latest readings (reading_count is
\* batchSize), and two calls of batch_inference by the loop are at least one
\* inference interval apart.
C30_BatchPerInterval ==
    [][BatchRun =>
        /\ bus_out' # <<>> =>
              /\ Len(sensor_buffer) >= BatchSize
              /\ bus_out'[1].payload.type = "batch_analysis"
              /\ bus_out'[1].payload.reading_count = BatchSize
              /\ ~model_loaded =>
                    bus_out'[1].payload.analysis =
                       mock_inference(LastN(sensor_buffer, BatchSize), FALSE,
                                      FALSE, NoPrompt)
        /\ batch.last_run # -1 =>
              batch'.last_run - batch.last_run >= InferenceInterval]_vars

----------------------------------------------------------------------------
(* The life of a listener in active_connections, checked under            *)
(* SpecBroadcast.                                                         *)

Registered == Range(active_connections)

\* connect_websocket has accepted ws in this step.
Registers(ws) == ws \in accepted' \ accepted

\* The handler of ws ends in this step.
HandlerEnds(ws) == ws \in ended' \ ended

\* The broadcast's delivery to ws fails in this step.
DeliveryFails(ws) ==
    /\ AttemptStep
    /\ connections_copy[b_idx] = ws
    /\ ws \in b_failed'

\* A listener enters the registry when it registers and at no other step,
\* and leaves it when its handler ends or a delivery to it fails and at no
\* other step; once out it stays out.
RegistryLifecycle ==
    \A ws \in Listeners :
        /\ Registers(ws) => ws \in Registered'
        /\ (ws \notin Registered /\ ws \in Registered') => Registers(ws)
        /\ (HandlerEnds(ws) \/ DeliveryFails(ws)) => ws \notin Registered'
        /\ (ws \in Registered /\ ws \notin Registered') =>
              (HandlerEnds(ws) \/ DeliveryFails(ws))

\* A broadcast that begins takes the listeners registered at that moment: none
\* of those that have left the registry.
LaterPublishSkipsRemoved ==
    (BroadcastIdle /\ b_pc' = "sending") =>
        /\ connections_copy' = active_connections
        /\ Range(connections_copy') \cap (accepted \ Registered) = {}

\* The removal of a listener that is no longer registered changes nothing
\* and raises nothing.
RemovalOfRemovedIsNoOp ==
    \A ws \in Listeners :
        ((HandlerEnds(ws) \/ DeliveryFails(ws)) /\ ws \notin Registered) =>
            /\ active_connections' = active_connections
            /\ outcome' # "raised"
            /\ b_pc' # "raised"

\* C24: a listener is registered exactly from connect_websocket's append
\* until its handler ends or a delivery to it first fails; afterwards it is
\* not registered and no broadcast that begins attempts it; the registry
\* never lists a listener twice; removing a listener already removed is a
\* no-op that does not raise.
C24_ListenerLifecycle ==
    [][/\ RegistryLifecycle
       /\ LaterPublishSkipsRemoved
       /\ RemovalOfRemovedIsNoOp
       /\ Len(active_connections') = Cardinality(Registered')]_vars

\* The delivery to listener 1 failed and took it out of the registry; its
\* handler ended afterwards, when it was no longer registered, and listener 2
\* is still registered.
C24_Witness ==
    /\ op = "websocket_end"
    /\ arg.ws = 1
    /\ outcome = "returned"
    /\ 1 \in b_failed
    /\ b_pc = "done"
    /\ connections_copy = <<1, 2>>
    /\ active_connections = <<2>>

----------------------------------------------------------------------------
(* SpecArrival: the bus delivers readings in any order, a reading stamped  *)
(* at an earlier time after one stamped later, and questions about one     *)
(* sensor type are asked.                                                  *)

\* Readings stamped at time t.
ArrivalReadings(t) ==
    { Reading("temperature_0", "temperature", Num(20 + t), "C", "false", Stamp(t)),
      Reading("pressure_0", "pressure", Num(150), "kPa", "false", Stamp(t)) }

TypeQuestions == {"temperature"}

InitArrival ==
    /\ proc = "chatbot"
    /\ config = DefaultSensors
    /\ model_loaded = FALSE
    /\ arg = NoValue
    /\ InitState

NextArrival ==
    \/ \E t \in 0..now : \E payload \in ArrivalReadings(t) :
          HandleMessage(BusMessage(SensorTopic, payload), FALSE)
    \/ Tick
    \/ \E message \in TypeQuestions : ChatWithLLM(message, "down")

SpecArrival == InitArrival /\ [][NextArrival]_vars

\* The buffered readings of a type inside the 30-minute window of the
\* question just answered.
InContextWindow(type) ==
    {i \in 1..Len(sensor_data) :
        /\ IsRecent(sensor_data[i], call_time - ContextWindow)
        /\ TypeOf(sensor_data[i]) = type}

\* C25: in whatever order the readings arrived, the answer to a question
\* about one sensor type reports a reading of that type with the greatest
\* timestamp inside the window, and counts the readings of that type inside
\* the window.
C25_LatestByTimestamp ==
    \A type \in TypeQuestions :
        (/\ op = "chat_with_llm"
         /\ exchange.state = "resolved"
         /\ exchange.question = type
         /\ exchange.answer.text = "Latest reading") =>
            /\ exchange.answer.count = Cardinality(InContextWindow(type))
            /\ \E i \in InContextWindow(type) :
                  /\ \A j \in InContextWindow(type) :
                        sensor_data[j].timestamp.t <= sensor_data[i].timestamp.t
                  /\ exchange.answer.value = sensor_data[i].value

----------------------------------------------------------------------------
(* SpecRecent: get_recent_sensor_context over buffers shorter and longer   *)
(* than the 20 readings it looks at.                                       *)

\* The i-th reading that arrived: its value is i; its sensor, its flag and
\* whether it names its type at all follow the kind.
ArrivedReading(i, kind) ==
    IF kind = 0
    THEN Reading("temperature_0", "temperature", Num(i), "C", "false", Stamp(0))
    ELSE IF kind = 1
    THEN Reading("temperature_0", "temperature", Num(i), "C", "true", Stamp(0))
    ELSE IF kind = 2
    THEN Reading("pressure_0", "pressure", Num(i), "kPa", "true", Stamp(0))
    ELSE Reading("sensor_0", Absent, NoNum, Absent, Absent, Stamp(0))

\* n readings in which the kind changes every stride readings.
ArrivedBuffer(n, stride) ==
    [i \in 1..n |-> ArrivedReading(i, (i \div stride) % 4)]

Strides == {1, 2, 3, 5}

InitRecent ==
    /\ proc = "engine"
    /\ config = DefaultSensors
    /\ model_loaded = FALSE
    /\ arg = NoValue
    /\ sensor_buffer \in {ArrivedBuffer(n, stride) :
                              n \in 0..MaxBuffered, stride \in Strides}
    /\ InitButBuffer

NextRecent == GetRecentSensorContext

SpecRecent == InitRecent /\ [][NextRecent]_vars

\* The positions of the buffer among its last RecentCount.
RecentPositions ==
    {i \in 1..Len(sensor_buffer) : i > Len(sensor_buffer) - RecentCount}

RECURSIVE SumOverTypes(_, _, _)
SumOverTypes(sensor_summary, field, types) ==
    IF types = {} THEN 0
    ELSE LET type == CHOOSE x \in types : TRUE
         IN  sensor_summary[type][field]
                + SumOverTypes(sensor_summary, field, types \ {type})

\* The latest position among the last RecentCount that holds a reading of
\* the type.
LatestPositionOf(type) ==
    CHOOSE i \in RecentPositions :
        /\ TypeOf(sensor_buffer[i]) = type
        /\ \A j \in RecentPositions :
              TypeOf(sensor_buffer[j]) = type => j <= i

ContextBuilt ==
    /\ op = "get_recent_sensor_context"
    /\ outcome = "returned"
    /\ sensor_buffer # <<>>

\* C29: the context built over a buffer that is not empty covers the last 20
\* buffered readings, all of them when there are fewer: total_readings is
\* min(20, length), the readings_count of the types add up to it,
\* total_anomalies is the sum of their anomaly_count and at most
\* total_readings, and the latest_value of a type is the value of the
\* reading of that type buffered last.
C29_LastTwentyReadings ==
    ContextBuilt =>
        /\ result.status = "-"
        /\ result.total_readings = Cardinality(RecentPositions)
        /\ result.total_readings =
              (IF Len(sensor_buffer) < RecentCount THEN Len(sensor_buffer)
               ELSE RecentCount)
        /\ DOMAIN result.sensor_summary =
              {TypeOf(sensor_buffer[i]) : i \in RecentPositions}
        /\ SumOverTypes(result.sensor_summary, "readings_count",
                        DOMAIN result.sensor_summary) = result.total_readings
        /\ SumOverTypes(result.sensor_summary, "anomaly_count",
                        DOMAIN result.sensor_summary) = result.total_anomalies
        /\ result.total_anomalies <= result.total_readings
        /\ \A type \in DOMAIN result.sensor_summary :
              result.sensor_summary[type].latest_value =
                 LatestValue(sensor_buffer[LatestPositionOf(type)])

\* A context built over 22 readings: it covers 20 of them, of three sensor
\* types and readings that name none, some of them flagged.
C29_Witness ==
    /\ ContextBuilt
    /\ Len(sensor_buffer) = 22
    /\ result.total_readings = 20
    /\ result.total_anomalies > 0
    /\ DOMAIN result.sensor_summary = {"temperature", "pressure", "unknown"}
    /\ result.sensor_summary["temperature"].readings_count < 20

====
